---- MODULE Spec2Model ----
(***************************************************************************)
(* State-machine model of the RecallMatrix Telegram backend: the auth-code *)
(* and connection lifecycle (app/services/auth_service.py), the memory     *)
(* store (app/services/memory_service.py) and the chat handlers            *)
(* (app/services/telegram_bot.py).                                         *)
(*                                                                         *)
(* Tables are sequences of rows in insertion order, so "ORDER BY           *)
(* created_at DESC LIMIT 1" is the matching row with the largest index.    *)
(* The columns connected_at and last_activity_at drive no control flow and *)
(* are not represented.                                                    *)
(***************************************************************************)
EXTENDS Integers, Sequences, FiniteSets, TLC

\* ------------------------------------------------------------------ bounds
MaxCodes == 2
MaxBotCodes == 1
MaxMemories == 1
MaxStored == 2
MaxTime == 11
NProcs == 2
MaxBatch == 2

\* ------------------------------------------------------- program constants
AUTH_CODE_LENGTH == 6
AUTH_CODE_EXPIRY_MINUTES == 10

\* ------------------------------------------------------------ input domains
Users == {"u1", "u2"}
Chats == {"t1", "t2"}
Procs == 1..NProcs

\* (telegram_username, telegram_first_name, telegram_last_name) of a sender
Profiles ==
    { [username |-> "ann", first_name |-> "Ann", last_name |-> "Lee"],
      [username |-> "bob", first_name |-> "Bob", last_name |-> "Ray"] }

\* the clock is in minutes; a wait ends exactly at, or one minute past, the
\* expiry of a code issued when the wait began
TickSteps == {AUTH_CODE_EXPIRY_MINUTES, AUTH_CODE_EXPIRY_MINUTES + 1}

\* string.ascii_uppercase + string.digits
Alphabet ==
    { "A", "B", "C", "D", "E", "F", "G", "H", "I", "J", "K", "L", "M",
      "N", "O", "P", "Q", "R", "S", "T", "U", "V", "W", "X", "Y", "Z",
      "0", "1", "2", "3", "4", "5", "6", "7", "8", "9" }

\* outcomes of the successive secrets.choice(...) draws of one call
StreamLen == AUTH_CODE_LENGTH + 2
Streams ==
    { [i \in 1..StreamLen |-> IF i % 2 = 1 THEN "A" ELSE "7"],
      [i \in 1..StreamLen |-> "Z"] }

\* texts are sequences of characters
Texts == { <<"h", "i">> }
Captions == { << >>, <<"C", "a", "t">> }
Queries == { <<"H">>, <<"x">> }
FileNames == { <<"a", "_", "b", ".", "j", "p", "g">> }

\* "\n\n<warning sign> File upload failed"; "#" stands for the sign and the words
FailureNote == <<"\n", "\n", "#">>

\* str.upper() and str.lower() on the letters
LowerLetters ==
    <<"a", "b", "c", "d", "e", "f", "g", "h", "i", "j", "k", "l", "m",
      "n", "o", "p", "q", "r", "s", "t", "u", "v", "w", "x", "y", "z">>
UpperLetters ==
    <<"A", "B", "C", "D", "E", "F", "G", "H", "I", "J", "K", "L", "M",
      "N", "O", "P", "Q", "R", "S", "T", "U", "V", "W", "X", "Y", "Z">>

UpperChar(c) ==
    IF \E k \in 1..26 : LowerLetters[k] = c
    THEN UpperLetters[CHOOSE k \in 1..26 : LowerLetters[k] = c]
    ELSE c
LowerChar(c) ==
    IF \E k \in 1..26 : UpperLetters[k] = c
    THEN LowerLetters[CHOOSE k \in 1..26 : UpperLetters[k] = c]
    ELSE c
Upper(s) == [i \in DOMAIN s |-> UpperChar(s[i])]
Lower(s) == [i \in DOMAIN s |-> LowerChar(s[i])]

Whitespace == {" ", "\t", "\n"}

\* str.strip()
RECURSIVE LStrip(_)
LStrip(s) == IF s # << >> /\ Head(s) \in Whitespace THEN LStrip(Tail(s)) ELSE s
RECURSIVE RStrip(_)
RStrip(s) ==
    IF s # << >> /\ s[Len(s)] \in Whitespace THEN RStrip(SubSeq(s, 1, Len(s) - 1)) ELSE s
Strip(s) == RStrip(LStrip(s))

\* s[:n]
Take(s, n) == SubSeq(s, 1, IF Len(s) < n THEN Len(s) ELSE n)

\* ---------------------------------------------------------------- state
VARIABLES
    codes,         \* telegram_auth_codes rows
    conns,         \* telegram_connections rows
    memories,      \* memories rows
    memory_files,  \* memory_files rows
    now,           \* datetime.now(timezone.utc), in minutes
    ret,           \* the last operation, its arguments and what it returned
    replies,       \* reply_text messages sent by the last chat handler
    calls,         \* service calls made by the last chat handler
    successes,     \* per auth-code row: verify_and_connect calls that returned success
    linked,        \* per auth-code row: some verify_and_connect call wrote the connection for it
    pc,            \* per in-flight call: the statement it is about to run
    loc,           \* per in-flight call: its arguments and local variables
    pool,          \* database._pool: 0 is None, n the n-th pool created
    created        \* pools that asyncpg.create_pool has returned

vars == <<codes, conns, memories, memory_files, now, ret, replies, calls,
          successes, linked, pc, loc, pool, created>>

\* ------------------------------------------------------- generate_auth_code
\* one draw too few
RandomCode_Short(stream) == [i \in 1..(AUTH_CODE_LENGTH - 1) |-> stream[i]]

\* ''.join(secrets.choice(...) for _ in range(settings.AUTH_CODE_LENGTH))
RandomCode(stream) == [i \in 1..AUTH_CODE_LENGTH |-> stream[i]]

\* the update without its user_id condition
InvalidateCodes_AllUsers(cs, u) ==
    [i \in DOMAIN cs |-> [cs[i] EXCEPT !.is_used = TRUE]]

\* UPDATE telegram_auth_codes SET is_used = true WHERE user_id = $1 AND is_used = false
InvalidateCodes(cs, u) ==
    [i \in DOMAIN cs |->
        IF cs[i].user_id = u /\ ~cs[i].is_used
        THEN [cs[i] EXCEPT !.is_used = TRUE]
        ELSE cs[i]]

\* INSERT INTO telegram_auth_codes (user_id, code, expires_at); is_used defaults to false
InsertCode(cs, u, code, exp) ==
    Append(cs, [user_id |-> u, code |-> code, expires_at |-> exp, is_used |-> FALSE])

ExpiresAt(t) == t + AUTH_CODE_EXPIRY_MINUTES

\* the whole call, nothing interleaved
GenerateAuthCode(cs, u, stream, t) ==
    InsertCode(InvalidateCodes(cs, u), u, RandomCode(stream), ExpiresAt(t))

\* ------------------------------------------------------- verify_and_connect
\* SELECT ... FROM telegram_auth_codes WHERE code = $1 ORDER BY created_at DESC LIMIT 1
\* (0 when no row matches)
LookupCode(cs, code) ==
    LET hits == {i \in DOMAIN cs : cs[i].code = code}
    IN  IF hits = {} THEN 0 ELSE CHOOSE i \in hits : \A j \in hits : j <= i

\* the error strings of verify_and_connect
InvalidCode == "Invalid code"
CodeAlreadyUsed == "Code already used"
CodeExpired == "Code expired"
AlreadyConnectedElsewhere ==
    "Telegram account already connected to another MemoryVault account"

\* the expiry guard left out
CheckCode_NoExpiry(cs, row, t) ==
    IF row = 0 THEN InvalidCode
    ELSE IF cs[row].is_used THEN CodeAlreadyUsed
    ELSE "ok"

\* the is_used guard left out
CheckCode_NoUsedCheck(cs, row, t) ==
    IF row = 0 THEN InvalidCode
    ELSE IF t > cs[row].expires_at THEN CodeExpired
    ELSE "ok"

\* the expiry guard placed before the is_used guard
CheckCode_ExpiryFirst(cs, row, t) ==
    IF row = 0 THEN InvalidCode
    ELSE IF t > cs[row].expires_at THEN CodeExpired
    ELSE IF cs[row].is_used THEN CodeAlreadyUsed
    ELSE "ok"

\* the three guards on the looked-up row, in source order
CheckCode(cs, row, t) ==
    IF row = 0 THEN InvalidCode
    ELSE IF cs[row].is_used THEN CodeAlreadyUsed
    ELSE IF t > cs[row].expires_at THEN CodeExpired
    ELSE "ok"

\* the lookup without its is_active condition
ActiveRows_IgnoreActive(cn, chat) ==
    {i \in DOMAIN cn : cn[i].telegram_user_id = chat}

\* SELECT user_id FROM telegram_connections WHERE telegram_user_id = $1 AND is_active = true
ActiveRows(cn, chat) ==
    {i \in DOMAIN cn : cn[i].telegram_user_id = chat /\ cn[i].is_active}

\* the guard without its comparison of owners
ConnectedElsewhere_AnyOwner(cn, chat, u) ==
    ActiveRows(cn, chat) # {}

\* if existing and existing["user_id"] != user_id
ConnectedElsewhere(cn, chat, u) ==
    \E i \in ActiveRows(cn, chat) : cn[i].user_id # u

ConnRow(u, chat, prof) ==
    [user_id |-> u, telegram_user_id |-> chat,
     telegram_username |-> prof.username,
     telegram_first_name |-> prof.first_name,
     telegram_last_name |-> prof.last_name,
     is_active |-> TRUE]

\* a plain insert, no conflict clause
UpsertConnection_AlwaysInsert(cn, u, chat, prof) ==
    Append(cn, ConnRow(u, chat, prof))

\* INSERT INTO telegram_connections ... ON CONFLICT (telegram_user_id) DO UPDATE SET ...
UpsertConnection(cn, u, chat, prof) ==
    IF \E i \in DOMAIN cn : cn[i].telegram_user_id = chat
    THEN [i \in DOMAIN cn |->
            IF cn[i].telegram_user_id = chat THEN ConnRow(u, chat, prof) ELSE cn[i]]
    ELSE Append(cn, ConnRow(u, chat, prof))

\* UPDATE telegram_auth_codes SET is_used = true WHERE code = $1
MarkCodeUsed(cs, code) ==
    [i \in DOMAIN cs |->
        IF cs[i].code = code THEN [cs[i] EXCEPT !.is_used = TRUE] ELSE cs[i]]

\* the code is consumed before the connection guard refuses the call
VerifyAndConnect_MarkOnRefusal(cs, cn, code, chat, prof, t) ==
    LET row   == LookupCode(cs, code)
        check == CheckCode(cs, row, t)
    IN  IF check # "ok"
        THEN [success |-> FALSE, error |-> check, row |-> row, codes |-> cs, conns |-> cn]
        ELSE IF ConnectedElsewhere(cn, chat, cs[row].user_id)
        THEN [success |-> FALSE, error |-> AlreadyConnectedElsewhere,
              row |-> row, codes |-> MarkCodeUsed(cs, code), conns |-> cn]
        ELSE [success |-> TRUE, error |-> "", row |-> row,
              codes |-> MarkCodeUsed(cs, code),
              conns |-> UpsertConnection(cn, cs[row].user_id, chat, prof)]

\* the whole call, nothing interleaved: what it returns and what it leaves behind
VerifyAndConnect(cs, cn, code, chat, prof, t) ==
    LET row   == LookupCode(cs, code)
        check == CheckCode(cs, row, t)
    IN  IF check # "ok"
        THEN [success |-> FALSE, error |-> check, row |-> row, codes |-> cs, conns |-> cn]
        ELSE IF ConnectedElsewhere(cn, chat, cs[row].user_id)
        THEN [success |-> FALSE, error |-> AlreadyConnectedElsewhere,
              row |-> row, codes |-> cs, conns |-> cn]
        ELSE [success |-> TRUE, error |-> "", row |-> row,
              codes |-> MarkCodeUsed(cs, code),
              conns |-> UpsertConnection(cn, cs[row].user_id, chat, prof)]

\* successes + 1 at the row a successful call was made for
CountSuccess(sc, out) ==
    IF out.success THEN [sc EXCEPT ![out.row] = @ + 1] ELSE sc

\* linked at the row a successful call wrote the connection for
MarkLinked(ln, out) ==
    IF out.success THEN [ln EXCEPT ![out.row] = TRUE] ELSE ln

\* ---------------------------------------------------------- status lookups
\* the lookup finds no row, whatever the table holds
IsUserConnected_Never(cn, chat) == FALSE

\* is_user_connected
IsUserConnected(cn, chat) == ActiveRows(cn, chat) # {}

\* get_connection_status_by_telegram
GetConnectionStatusByTelegram(cn, chat) ==
    IF ActiveRows(cn, chat) = {}
    THEN [connected |-> FALSE]
    ELSE [connected |-> TRUE,
          user_id |-> cn[CHOOSE i \in ActiveRows(cn, chat) : TRUE].user_id]

\* SELECT ... FROM telegram_connections WHERE user_id = $1 AND is_active = true
UserActiveRows(cn, u) == {i \in DOMAIN cn : cn[i].user_id = u /\ cn[i].is_active}

\* get_connection_status: every value the call may return; fetchrow takes the
\* first matching row and the query has no ORDER BY
GetConnectionStatus(cn, u) ==
    IF UserActiveRows(cn, u) = {}
    THEN {[connected |-> FALSE]}
    ELSE {[connected |-> TRUE,
           telegram_user_id |-> cn[i].telegram_user_id,
           telegram_username |-> cn[i].telegram_username,
           telegram_name |-> <<cn[i].telegram_first_name, " ", cn[i].telegram_last_name>>]
          : i \in UserActiveRows(cn, u)}

\* ------------------------------------------------------------ disconnect_user
\* the update without its user_id condition
DisconnectUser_AllUsers(cn, u) ==
    [i \in DOMAIN cn |-> [cn[i] EXCEPT !.is_active = FALSE]]

\* UPDATE telegram_connections SET is_active = false WHERE user_id = $1
DisconnectUser(cn, u) ==
    [i \in DOMAIN cn |->
        IF cn[i].user_id = u THEN [cn[i] EXCEPT !.is_active = FALSE] ELSE cn[i]]

\* ------------------------------------------------------------ memory_service
\* what the embeddings API answers in the chat flows: a vector or a failure
EmbedOutcomes == {"v1", "fail"}
\* the vectors the embeddings API can answer, and every answer it can give
Vectors == {"v1", "v2"}
EmbedApi == Vectors \cup {"fail"}
\* what storage_service.process_telegram_file reports
RelayOutcomes == {"ok", "download_failed", "upload_failed"}
\* what analyze_image_from_url returns: the model's description or the filename fallback
Analyses ==
    { [title |-> <<"S", "u", "n">>, content |-> <<"s", "k", "y">>, confidence |-> 1],
      [title |-> <<"A", " ", "B">>, content |-> <<"I", "m", "g">>, confidence |-> 0] }

\* the INSERT of a create_memory_* call that raises, if the call reaches it (a
\* raise of the SELECT before them leaves the same state as a raise of the first)
MemoryDbOutcomes == {"ok", "insert_memory", "insert_file"}

\* if not text or not text.strip()
IsBlank(text) == Strip(text) = << >>

\* the blank check left out: the text always goes to the API
GenerateEmbedding_NoBlankCheck(text, api) ==
    [embedding |-> IF api = "fail" THEN "null" ELSE api, network_calls |-> 1]

\* generate_embedding with the number of requests it sends: None for blank
\* text without a request, else one request and what the API yields
GenerateEmbeddingCall(text, api) ==
    IF IsBlank(text)
    THEN [embedding |-> "null", network_calls |-> 0]
    ELSE [embedding |-> IF api = "fail" THEN "null" ELSE api, network_calls |-> 1]

\* generate_embedding: the value it returns ("null" is None)
GenerateEmbedding(text, api) == GenerateEmbeddingCall(text, api).embedding

\* f"{title} {content}"
EmbeddingText(title, content) == title \o <<" ">> \o content

UserMemories(ms, u) == {i \in DOMAIN ms : ms[i].user_id = u}

\* SELECT COALESCE(MAX(index_position), 0) FROM memories WHERE user_id = $1
MaxIndex(ms, u) ==
    LET pos == {ms[i].index_position : i \in UserMemories(ms, u)}
    IN  IF pos = {} THEN 0 ELSE CHOOSE m \in pos : \A x \in pos : x <= m

MemoryRow(u, title, content, type, emb, idx) ==
    [user_id |-> u, title |-> title, content |-> content, type |-> type,
     embedding |-> emb, index_position |-> idx]

\* INSERT INTO memories (...) VALUES (...) RETURNING id; memory ids are row numbers
InsertMemory(ms, row) == Append(ms, row)

\* INSERT INTO memory_files (memory_id, file_name, file_path, file_type, file_size)
InsertMemoryFile(mf, memory_id, file_name, file_type) ==
    Append(mf, [memory_id |-> memory_id, file_name |-> file_name, file_type |-> file_type])

\* except Exception: return {"success": False, "error": str(e)}
CreateFailed(ms, mf) ==
    [memories |-> ms, memory_files |-> mf, success |-> FALSE, error |-> "database error"]

\* a failed embedding aborts the call
CreateMemoryFromTelegram_EmbeddingRequired(ms, mf, u, title, content, api, db) ==
    LET emb == GenerateEmbedding(EmbeddingText(title, content), api)
    IN  IF db = "insert_memory" \/ emb = "null"
        THEN CreateFailed(ms, mf)
        ELSE [memories |-> InsertMemory(ms, MemoryRow(u, title, content, "text", emb,
                                                      MaxIndex(ms, u) + 1)),
              memory_files |-> mf,
              success |-> TRUE, memory_id |-> Len(ms) + 1, has_embedding |-> TRUE]

\* create_memory_from_telegram, nothing interleaved
CreateMemoryFromTelegram(ms, mf, u, title, content, api, db) ==
    LET emb == GenerateEmbedding(EmbeddingText(title, content), api)
    IN  IF db = "insert_memory"
        THEN CreateFailed(ms, mf)
        ELSE [memories |-> InsertMemory(ms, MemoryRow(u, title, content, "text", emb,
                                                      MaxIndex(ms, u) + 1)),
              memory_files |-> mf,
              success |-> TRUE, memory_id |-> Len(ms) + 1, has_embedding |-> emb # "null"]

\* a failed relay fails the call
CreateMemoryWithFile_NoFallback(ms, mf, u, title, content, file_name, file_type, relay, api, db) ==
    IF relay # "ok"
    THEN CreateFailed(ms, mf)
    ELSE LET emb == GenerateEmbedding(EmbeddingText(title, content), api)
             row == MemoryRow(u, title, content, "file", emb, MaxIndex(ms, u) + 1)
         IN  IF db = "insert_memory"
             THEN CreateFailed(ms, mf)
             ELSE IF db = "insert_file"
             THEN CreateFailed(InsertMemory(ms, row), mf)
             ELSE [memories |-> InsertMemory(ms, row),
                   memory_files |-> InsertMemoryFile(mf, Len(ms) + 1, file_name, file_type),
                   success |-> TRUE, memory_id |-> Len(ms) + 1, file_url |-> "public_url"]

\* create_memory_with_file, nothing interleaved; the two inserts are separate
\* statements outside any transaction, so the first stays when the second raises
CreateMemoryWithFile(ms, mf, u, title, content, file_name, file_type, relay, api, db) ==
    IF relay # "ok"
    THEN CreateMemoryFromTelegram(ms, mf, u, title, content \o FailureNote, api, db)
    ELSE LET emb == GenerateEmbedding(EmbeddingText(title, content), api)
             row == MemoryRow(u, title, content, "file", emb, MaxIndex(ms, u) + 1)
         IN  IF db = "insert_memory"
             THEN CreateFailed(ms, mf)
             ELSE IF db = "insert_file"
             THEN CreateFailed(InsertMemory(ms, row), mf)
             ELSE [memories |-> InsertMemory(ms, row),
                   memory_files |-> InsertMemoryFile(mf, Len(ms) + 1, file_name, file_type),
                   success |-> TRUE, memory_id |-> Len(ms) + 1, file_url |-> "public_url"]

\* get_memory_count
GetMemoryCount(ms, u) == Cardinality(UserMemories(ms, u))

\* get_recent_memories: the rows LIMIT lets through, newest first
GetRecentMemories(ms, u, limit) ==
    {i \in UserMemories(ms, u) : Cardinality({j \in UserMemories(ms, u) : j > i}) < limit}

\* text LIKE pattern: % is any run of characters, _ is any one character and
\* a backslash makes the next character literal
RECURSIVE LikeMatch(_, _)
LikeMatch(text, pattern) ==
    IF pattern = << >> THEN text = << >>
    ELSE IF Head(pattern) = "%"
    THEN \/ LikeMatch(text, Tail(pattern))
         \/ text # << >> /\ LikeMatch(Tail(text), pattern)
    ELSE IF Head(pattern) = "\\" /\ Len(pattern) > 1
    THEN /\ text # << >>
         /\ Head(text) = pattern[2]
         /\ LikeMatch(Tail(text), Tail(Tail(pattern)))
    ELSE /\ text # << >>
         /\ Head(pattern) = "_" \/ Head(text) = Head(pattern)
         /\ LikeMatch(Tail(text), Tail(pattern))

\* text ILIKE pattern
ILike(text, pattern) == LikeMatch(Lower(text), Lower(pattern))

\* f"%{query}%"
LikePattern(query) == <<"%">> \o query \o <<"%">>

\* the embeddings are unit vectors
Vector(e) == IF e = "v1" THEN <<1, 0>> ELSE <<0, 1>>

\* a <=> b, the cosine distance of two unit vectors
CosineDistance(a, b) == 1 - (Vector(a)[1] * Vector(b)[1] + Vector(a)[2] * Vector(b)[2])

\* ORDER BY key LIMIT limit over the rows in S: every sequence the database
\* may return (rows with equal keys come in any order)
OrderByLimit(S, key, limit) ==
    LET n == IF Cardinality(S) < limit THEN Cardinality(S) ELSE limit
    IN  {r \in [1..n -> S] :
            /\ \A a, b \in 1..n : a < b => r[a] # r[b] /\ key[r[a]] <= key[r[b]]
            /\ \A i \in S : (\A a \in 1..n : r[a] # i) => \A a \in 1..n : key[r[a]] <= key[i]}

\* search_memories: every result the call may return, as row numbers in order;
\* created_at grows with the row number
SearchMemories(ms, u, query, limit, api) ==
    LET query_embedding == GenerateEmbedding(query, api)
    IN  IF query_embedding # "null"
        THEN LET S == {i \in UserMemories(ms, u) : ms[i].embedding # "null"}
             IN  OrderByLimit(S, [i \in S |-> CosineDistance(ms[i].embedding, query_embedding)],
                              limit)
        ELSE LET S == {i \in UserMemories(ms, u) :
                         \/ ILike(ms[i].title, LikePattern(query))
                         \/ ILike(ms[i].content, LikePattern(query))}
             IN  OrderByLimit(S, [i \in S |-> 0 - i], limit)

NoLocals == [op |-> "none"]

Init ==
    /\ codes = << >>
    /\ conns = << >>
    /\ memories = << >>
    /\ memory_files = << >>
    /\ now = 0
    /\ ret = [op |-> "init"]
    /\ replies = << >>
    /\ calls = {}
    /\ successes = << >>
    /\ linked = << >>
    /\ pc = [p \in Procs |-> "idle"]
    /\ loc = [p \in Procs |-> NoLocals]
    /\ pool = 0
    /\ created = 0

Generate(u, stream) ==
    /\ Len(codes) < MaxCodes
    /\ codes' = GenerateAuthCode(codes, u, stream, now)
    /\ successes' = Append(successes, 0)
    /\ linked' = Append(linked, FALSE)
    /\ ret' = [op |-> "generate", user_id |-> u, code |-> RandomCode(stream)]
    /\ replies' = << >>
    /\ calls' = {}
    /\ UNCHANGED <<conns, memories, memory_files, now, pool, created, pc, loc>>

Tick(d) ==
    /\ now + d <= MaxTime
    /\ now' = now + d
    /\ ret' = [op |-> "tick"]
    /\ replies' = << >>
    /\ calls' = {}
    /\ UNCHANGED <<codes, conns, memories, memory_files, successes, linked, pc, loc,
                   pool, created>>

\* code strings a caller may present: the ones the generator can produce
\* and one that it cannot
CodeInputs == {RandomCode(s) : s \in Streams} \cup {[i \in 1..AUTH_CODE_LENGTH |-> "Q"]}

Verify(code, chat, prof) ==
    LET out == VerifyAndConnect(codes, conns, code, chat, prof, now)
    IN  /\ codes' = out.codes
        /\ conns' = out.conns
        /\ successes' = CountSuccess(successes, out)
        /\ linked' = MarkLinked(linked, out)
        /\ ret' = [op |-> "verify", code |-> code, chat |-> chat, profile |-> prof,
                   row |-> out.row, success |-> out.success, error |-> out.error]
        /\ replies' = << >>
        /\ calls' = {}
        /\ UNCHANGED <<memories, memory_files, now, pool, created, pc, loc>>

Disconnect(u) ==
    /\ conns' = DisconnectUser(conns, u)
    /\ ret' = [op |-> "disconnect", user_id |-> u, success |-> TRUE]
    /\ replies' = << >>
    /\ calls' = {}
    /\ UNCHANGED <<codes, memories, memory_files, now, pool, created, successes, linked, pc, loc>>

\* ----------------------------------------------------- server-to-server endpoints
\* settings.API_SECRET_KEY
API_SECRET_KEY == "k1"

\* the X-Api-Key header of a request: absent, the configured secret, another value
ApiHeaders == {<< >>, <<API_SECRET_KEY>>, <<"k2">>}

\* Depends(get_db_pool): the pool, or the exception init_db_pool re-raises
\* when the pool has to be created and the database cannot be reached
PoolOutcomes == {"pool", "raise"}

\* what the service call does with the database: runs, or raises at its first statement
DbOutcomes == {"ok", "raise"}

InvalidApiKey == [detail |-> "Invalid API key"]

\* the comparison with the configured secret left out
ApiGuard_NoKeyCheck(header, dep) ==
    IF dep = "raise" THEN 500
    ELSE IF header = << >> THEN 422
    ELSE 200

\* what happens before the endpoint's try block: the dependencies and the
\* required header are resolved by the framework before the body runs, then
\* the body compares the header with the configured secret (200: the body goes on)
ApiGuard(header, dep) ==
    IF dep = "raise" THEN 500
    ELSE IF header = << >> THEN 422
    ELSE IF header[1] # API_SECRET_KEY THEN 401
    ELSE 200

\* the response to a request that does not get past ApiGuard
ApiRejected(status) ==
    IF status = 401 THEN InvalidApiKey
    ELSE IF status = 422 THEN [detail |-> "Field required"]
    ELSE [detail |-> "Internal Server Error"]

ApiResponse(name, u, header, status, body) ==
    [op |-> name, user_id |-> u, header |-> header, status |-> status, body |-> body]

\* POST /generate-auth-code
ApiGenerateAuthCode(u, stream, header, dep, db) ==
    LET gate == ApiGuard(header, dep)
    IN  /\ replies' = << >>
        /\ UNCHANGED <<conns, memories, memory_files, now, pool, created, pc, loc>>
        /\ IF gate # 200
           THEN /\ ret' = ApiResponse("api_generate_auth_code", u, header, gate, ApiRejected(gate))
                /\ calls' = {}
                /\ UNCHANGED <<codes, successes, linked>>
           ELSE IF db = "raise"
           THEN /\ ret' = ApiResponse("api_generate_auth_code", u, header, 500,
                                      [detail |-> "database error"])
                /\ calls' = {"generate_auth_code"}
                /\ UNCHANGED <<codes, successes, linked>>
           ELSE /\ Len(codes) < MaxCodes
                /\ codes' = GenerateAuthCode(codes, u, stream, now)
                /\ successes' = Append(successes, 0)
                /\ linked' = Append(linked, FALSE)
                /\ calls' = {"generate_auth_code"}
                /\ ret' = ApiResponse("api_generate_auth_code", u, header, 200,
                                      [code |-> RandomCode(stream),
                                       expires_in_minutes |-> AUTH_CODE_EXPIRY_MINUTES])

\* GET /connection-status/{user_id}
ApiGetConnectionStatus(u, header, dep, db) ==
    LET gate == ApiGuard(header, dep)
    IN  /\ replies' = << >>
        /\ UNCHANGED <<codes, conns, memories, memory_files, now, pool, created, successes, linked, pc, loc>>
        /\ IF gate # 200
           THEN /\ ret' = ApiResponse("api_get_connection_status", u, header, gate,
                                      ApiRejected(gate))
                /\ calls' = {}
           ELSE IF db = "raise"
           THEN /\ ret' = ApiResponse("api_get_connection_status", u, header, 500,
                                      [detail |-> "database error"])
                /\ calls' = {"get_connection_status"}
           ELSE /\ \E status \in GetConnectionStatus(conns, u) :
                      ret' = ApiResponse("api_get_connection_status", u, header, 200, status)
                /\ calls' = {"get_connection_status"}

\* POST /disconnect/{user_id}
ApiDisconnectTelegram(u, header, dep, db) ==
    LET gate == ApiGuard(header, dep)
    IN  /\ replies' = << >>
        /\ UNCHANGED <<codes, memories, memory_files, now, pool, created, successes, linked, pc, loc>>
        /\ IF gate # 200
           THEN /\ ret' = ApiResponse("api_disconnect_telegram", u, header, gate,
                                      ApiRejected(gate))
                /\ calls' = {}
                /\ UNCHANGED conns
           ELSE IF db = "raise"
           THEN /\ ret' = ApiResponse("api_disconnect_telegram", u, header, 500,
                                      [detail |-> "database error"])
                /\ calls' = {"disconnect_user"}
                /\ UNCHANGED conns
           ELSE /\ conns' = DisconnectUser(conns, u)
                /\ calls' = {"disconnect_user"}
                /\ ret' = ApiResponse("api_disconnect_telegram", u, header, 200,
                                      [success |-> TRUE])

\* ------------------------------------------------------------- chat handlers
Reply(kind, detail) == [kind |-> kind, detail |-> detail]

\* what a sender may type after /connect: nothing, a code, a code in lower case
ConnectArgs ==
    {<< >>} \cup {<<c>> : c \in CodeInputs} \cup {<<Lower(RandomCode(s))>> : s \in Streams}

\* where an exception is raised while a handler runs, if the handler gets
\* there: in get_db_pool, in the connection lookup that follows it, or in the
\* service call made for a connected sender
HandlerFaults == {"none", "pool", "lookup", "service"}

\* the handler, its sender, the exception raised while it ran and whether
\* that exception left the handler
HandlerRet(name, chat, raised, escaped) ==
    [op |-> name, chat |-> chat, raised |-> raised, escaped |-> escaped]

\* the handlers that reply with a fixed text: /start, /add, /help
StaticReply(name, chat, kind) ==
    /\ ret' = HandlerRet(name, chat, "none", FALSE)
    /\ replies' = <<Reply(kind, "")>>
    /\ calls' = {}
    /\ UNCHANGED <<codes, conns, memories, memory_files, now, pool, created, successes, linked, pc, loc>>

CmdStart(chat) == StaticReply("cmd_start", chat, "welcome")
CmdAdd(chat) == StaticReply("cmd_add", chat, "add_instructions")
CmdHelp(chat) == StaticReply("cmd_help", chat, "help")

\* verify_and_connect has no except clause; a raise is taken at its first statement
CmdConnect(chat, prof, args, fault) ==
    LET reached == ~IsUserConnected(conns, chat) /\ args # << >>
        raised  == IF fault \in {"pool", "lookup"} THEN fault
                   ELSE IF fault = "service" /\ reached THEN fault
                   ELSE "none"
    IN  /\ ret' = [args |-> args] @@ HandlerRet("cmd_connect", chat, raised,
                                                raised \in {"pool", "lookup"})
        /\ UNCHANGED <<memories, memory_files, now, pool, created, pc, loc>>
        /\ IF raised = "pool"
           THEN /\ replies' = << >>
                /\ calls' = {}
                /\ UNCHANGED <<codes, conns, successes, linked>>
           ELSE IF raised = "lookup"
           THEN /\ replies' = << >>
                /\ calls' = {"is_user_connected"}
                /\ UNCHANGED <<codes, conns, successes, linked>>
           ELSE IF IsUserConnected(conns, chat)
           THEN /\ replies' = <<Reply("already_connected", "")>>
                /\ calls' = {"is_user_connected"}
                /\ UNCHANGED <<codes, conns, successes, linked>>
           ELSE IF args = << >>
           THEN /\ replies' = <<Reply("connect_usage", "")>>
                /\ calls' = {"is_user_connected"}
                /\ UNCHANGED <<codes, conns, successes, linked>>
           ELSE IF raised = "service"
           THEN /\ replies' = <<Reply("error_occurred", "")>>
                /\ calls' = {"is_user_connected", "verify_and_connect"}
                /\ UNCHANGED <<codes, conns, successes, linked>>
           ELSE LET auth_code == Upper(Strip(args[1]))
                    out == VerifyAndConnect(codes, conns, auth_code, chat, prof, now)
                IN  /\ codes' = out.codes
                    /\ conns' = out.conns
                    /\ successes' = CountSuccess(successes, out)
                    /\ linked' = MarkLinked(linked, out)
                    /\ calls' = {"is_user_connected", "verify_and_connect"}
                    /\ replies' = IF out.success
                                  THEN <<Reply("connected_successfully", "")>>
                                  ELSE <<Reply("connection_failed", out.error)>>

\* the lookup and the count are inside the try block, get_db_pool is not
CmdStatus(chat, fault) ==
    LET status == GetConnectionStatusByTelegram(conns, chat)
        raised == IF fault \in {"pool", "lookup"} THEN fault
                  ELSE IF fault = "service" /\ status.connected THEN fault
                  ELSE "none"
    IN  /\ ret' = HandlerRet("cmd_status", chat, raised, raised = "pool")
        /\ IF raised = "pool"
           THEN /\ replies' = << >>
                /\ calls' = {}
           ELSE IF raised = "lookup"
           THEN /\ replies' = <<Reply("status_error", "")>>
                /\ calls' = {"get_connection_status_by_telegram"}
           ELSE IF raised = "service"
           THEN /\ replies' = <<Reply("status_error", "")>>
                /\ calls' = {"get_connection_status_by_telegram", "get_memory_count"}
           ELSE IF status.connected
           THEN /\ replies' = <<Reply("status_connected", GetMemoryCount(memories, status.user_id))>>
                /\ calls' = {"get_connection_status_by_telegram", "get_memory_count"}
           ELSE /\ replies' = <<Reply("not_connected", "")>>
                /\ calls' = {"get_connection_status_by_telegram"}
        /\ UNCHANGED <<codes, conns, memories, memory_files, now, pool, created, successes, linked, pc, loc>>

\* /list, /search and the message handlers: get_db_pool and the connection
\* lookup run before the try block, so what they raise leaves the handler
Escaped(raised) ==
    /\ raised \in {"pool", "lookup"}
    /\ replies' = << >>
    /\ calls' = IF raised = "pool" THEN {} ELSE {"get_connection_status_by_telegram"}

Raised(fault, connected) ==
    IF fault \in {"pool", "lookup"} THEN fault
    ELSE IF fault = "service" /\ connected THEN fault
    ELSE "none"

CmdList(chat, fault) ==
    LET status == GetConnectionStatusByTelegram(conns, chat)
        raised == Raised(fault, status.connected)
    IN  /\ ret' = HandlerRet("cmd_list", chat, raised, raised \in {"pool", "lookup"})
        /\ IF raised \in {"pool", "lookup"}
           THEN Escaped(raised)
           ELSE IF ~status.connected
           THEN /\ replies' = <<Reply("connect_prompt", "")>>
                /\ calls' = {"get_connection_status_by_telegram"}
           ELSE IF raised = "service"
           THEN /\ replies' = <<Reply("list_error", "")>>
                /\ calls' = {"get_connection_status_by_telegram", "get_recent_memories"}
           ELSE LET rows == GetRecentMemories(memories, status.user_id, 10)
                IN  /\ calls' = {"get_connection_status_by_telegram", "get_recent_memories"}
                    /\ replies' = IF rows = {}
                                  THEN <<Reply("no_memories", "")>>
                                  ELSE <<Reply("memory_list", rows)>>
        /\ UNCHANGED <<codes, conns, memories, memory_files, now, pool, created, successes, linked, pc, loc>>

CmdSearch(chat, query, api, fault) ==
    LET status == GetConnectionStatusByTelegram(conns, chat)
        raised == Raised(fault, status.connected /\ query # << >>)
    IN  /\ ret' = HandlerRet("cmd_search", chat, raised, raised \in {"pool", "lookup"})
        /\ IF raised \in {"pool", "lookup"}
           THEN Escaped(raised)
           ELSE IF ~status.connected
           THEN /\ replies' = <<Reply("connect_prompt", "")>>
                /\ calls' = {"get_connection_status_by_telegram"}
           ELSE IF query = << >>
           THEN /\ replies' = <<Reply("search_usage", "")>>
                /\ calls' = {"get_connection_status_by_telegram"}
           ELSE IF raised = "service"
           THEN /\ replies' = <<Reply("search_error", "")>>
                /\ calls' = {"get_connection_status_by_telegram", "search_memories"}
           ELSE \E rows \in SearchMemories(memories, status.user_id, query, 5, api) :
                    /\ calls' = {"get_connection_status_by_telegram", "search_memories"}
                    /\ replies' = IF rows = << >>
                                  THEN <<Reply("no_results", "")>>
                                  ELSE <<Reply("search_results", rows)>>
        /\ UNCHANGED <<codes, conns, memories, memory_files, now, pool, created, successes, linked, pc, loc>>

\* the database statement that raises inside a create_memory_* call
ServiceDb(raised) == IF raised = "service" THEN "insert_memory" ELSE "ok"

HandleTextMessage(chat, text, api, fault) ==
    LET status == GetConnectionStatusByTelegram(conns, chat)
        raised == Raised(fault, status.connected)
    IN  /\ ret' = HandlerRet("handle_text_message", chat, raised, raised \in {"pool", "lookup"})
        /\ UNCHANGED <<codes, conns, now, pool, created, successes, linked, pc, loc>>
        /\ IF raised \in {"pool", "lookup"}
           THEN Escaped(raised) /\ UNCHANGED <<memories, memory_files>>
           ELSE IF ~status.connected
           THEN /\ replies' = <<Reply("connect_prompt", "")>>
                /\ calls' = {"get_connection_status_by_telegram"}
                /\ UNCHANGED <<memories, memory_files>>
           ELSE LET result == CreateMemoryFromTelegram(memories, memory_files, status.user_id,
                                                       Take(text, 100), text, api,
                                                       ServiceDb(raised))
                IN  /\ Len(result.memories) <= MaxMemories
                    /\ memories' = result.memories
                    /\ memory_files' = result.memory_files
                    /\ calls' = {"get_connection_status_by_telegram",
                                 "create_memory_from_telegram"}
                    /\ replies' = IF result.success
                                  THEN <<Reply("memory_saved", "")>>
                                  ELSE <<Reply("memory_failed", "")>>

\* f"photo_{photo.file_id}.jpg"
PhotoFileName == <<"p", "h", "o", "t", "o", "_", "1", ".", "j", "p", "g">>

HandlePhotoMessage(chat, caption, analysis, relay, api, fault) ==
    LET status == GetConnectionStatusByTelegram(conns, chat)
        raised == Raised(fault, status.connected)
    IN  /\ ret' = HandlerRet("handle_photo_message", chat, raised, raised \in {"pool", "lookup"})
        /\ UNCHANGED <<codes, conns, now, pool, created, successes, linked, pc, loc>>
        /\ IF raised \in {"pool", "lookup"}
           THEN Escaped(raised) /\ UNCHANGED <<memories, memory_files>>
           ELSE IF ~status.connected
           THEN /\ replies' = <<Reply("connect_prompt", "")>>
                /\ calls' = {"get_connection_status_by_telegram"}
                /\ UNCHANGED <<memories, memory_files>>
           ELSE LET title   == IF caption # << >> THEN Take(caption, 100) ELSE analysis.title
                    content == IF caption # << >> THEN caption ELSE analysis.content
                    result  == CreateMemoryWithFile(memories, memory_files, status.user_id,
                                                    title, content, PhotoFileName, "image",
                                                    relay, api, ServiceDb(raised))
                IN  /\ Len(result.memories) <= MaxMemories
                    /\ memories' = result.memories
                    /\ memory_files' = result.memory_files
                    /\ calls' = {"get_connection_status_by_telegram", "analyze_image_from_url",
                                 "create_memory_with_file"}
                    /\ replies' = <<Reply("analyzing", ""),
                                    IF result.success
                                    THEN Reply("photo_saved", analysis.confidence > 0)
                                    ELSE Reply("photo_failed", "")>>

HandleDocumentMessage(chat, caption, file_name, relay, api, fault) ==
    LET status == GetConnectionStatusByTelegram(conns, chat)
        raised == Raised(fault, status.connected)
    IN  /\ ret' = HandlerRet("handle_document_message", chat, raised,
                             raised \in {"pool", "lookup"})
        /\ UNCHANGED <<codes, conns, now, pool, created, successes, linked, pc, loc>>
        /\ IF raised \in {"pool", "lookup"}
           THEN Escaped(raised) /\ UNCHANGED <<memories, memory_files>>
           ELSE IF ~status.connected
           THEN /\ replies' = <<Reply("connect_prompt", "")>>
                /\ calls' = {"get_connection_status_by_telegram"}
                /\ UNCHANGED <<memories, memory_files>>
           ELSE LET cap    == IF caption # << >> THEN caption ELSE file_name
                    result == CreateMemoryWithFile(memories, memory_files, status.user_id,
                                                   Take(cap, 100), cap, file_name, "document",
                                                   relay, api, ServiceDb(raised))
                IN  /\ Len(result.memories) <= MaxMemories
                    /\ memories' = result.memories
                    /\ memory_files' = result.memory_files
                    /\ calls' = {"get_connection_status_by_telegram", "create_memory_with_file"}
                    /\ replies' = IF result.success
                                  THEN <<Reply("document_saved", "")>>
                                  ELSE <<Reply("document_failed", "")>>

\* update.effective_user of each sender
SenderProfile(chat) ==
    IF chat = "t1"
    THEN [username |-> "ann", first_name |-> "Ann", last_name |-> "Lee"]
    ELSE [username |-> "bob", first_name |-> "Bob", last_name |-> "Ray"]

\* the events the chat transport can deliver, no exception raised
NextBot ==
    \/ \E u \in Users, stream \in Streams : Len(codes) < MaxBotCodes /\ Generate(u, stream)
    \/ \E u \in Users : Disconnect(u)
    \/ \E chat \in Chats : CmdStart(chat)
    \/ \E chat \in Chats : CmdAdd(chat)
    \/ \E chat \in Chats : CmdHelp(chat)
    \/ \E chat \in Chats, args \in ConnectArgs :
            CmdConnect(chat, SenderProfile(chat), args, "none")
    \/ \E chat \in Chats : CmdStatus(chat, "none")
    \/ \E chat \in Chats : CmdList(chat, "none")
    \/ \E chat \in Chats, query \in Queries \cup {<< >>}, api \in EmbedOutcomes :
            CmdSearch(chat, query, api, "none")
    \/ \E chat \in Chats, text \in Texts, api \in EmbedOutcomes :
            HandleTextMessage(chat, text, api, "none")
    \/ \E chat \in Chats, caption \in Captions, analysis \in Analyses,
          relay \in RelayOutcomes, api \in EmbedOutcomes :
            HandlePhotoMessage(chat, caption, analysis, relay, api, "none")
    \/ \E chat \in Chats, caption \in Captions, file_name \in FileNames,
          relay \in RelayOutcomes, api \in EmbedOutcomes :
            HandleDocumentMessage(chat, caption, file_name, relay, api, "none")

SpecBot == Init /\ [][NextBot]_vars

\* a photo sent without a caption, described by the image model
PlainPhoto == [title |-> <<"S", "u", "n">>, content |-> <<"s", "k", "y">>, confidence |-> 1]

\* codes being issued, /connect commands and disconnections, with exceptions
NextConnect ==
    \/ \E u \in Users, stream \in Streams : Generate(u, stream)
    \/ \E chat \in Chats, args \in ConnectArgs, fault \in HandlerFaults :
            CmdConnect(chat, SenderProfile(chat), args, fault)
    \/ \E u \in Users : Disconnect(u)

SpecConnect == Init /\ [][NextConnect]_vars

\* the same events with exceptions raised by the database
NextFault ==
    \/ \E u \in Users, stream \in Streams : Len(codes) < MaxBotCodes /\ Generate(u, stream)
    \/ \E u \in Users : Disconnect(u)
    \/ \E chat \in Chats : CmdStart(chat)
    \/ \E chat \in Chats : CmdAdd(chat)
    \/ \E chat \in Chats : CmdHelp(chat)
    \/ \E chat \in Chats, args \in ConnectArgs, fault \in HandlerFaults :
            CmdConnect(chat, SenderProfile(chat), args, fault)
    \/ \E chat \in Chats, fault \in HandlerFaults : CmdStatus(chat, fault)
    \/ \E chat \in Chats, fault \in HandlerFaults : CmdList(chat, fault)
    \/ \E chat \in Chats, query \in Queries \cup {<< >>}, fault \in HandlerFaults :
            CmdSearch(chat, query, "fail", fault)
    \/ \E chat \in Chats, text \in Texts, fault \in HandlerFaults :
            HandleTextMessage(chat, text, "v1", fault)
    \/ \E chat \in Chats, fault \in HandlerFaults :
            HandlePhotoMessage(chat, << >>, PlainPhoto, "ok", "v1", fault)
    \/ \E chat \in Chats, file_name \in FileNames, fault \in HandlerFaults :
            HandleDocumentMessage(chat, << >>, file_name, "ok", "v1", fault)

SpecFault == Init /\ [][NextFault]_vars

\* ------------------------------------------------------ memory service calls
\* (title, content) pairs a caller passes; the second has nothing to embed
MemoryInputs ==
    { [title |-> <<"T">>, content |-> <<"h", "i">>],
      [title |-> <<" ">>, content |-> <<" ">>] }

\* what a create_memory_* call returns
Result(out) == [k \in DOMAIN out \ {"memories", "memory_files"} |-> out[k]]

CreateText(u, in, api, db) ==
    LET out == CreateMemoryFromTelegram(memories, memory_files, u, in.title, in.content, api, db)
    IN  /\ Len(out.memories) <= MaxStored
        /\ memories' = out.memories
        /\ memory_files' = out.memory_files
        /\ ret' = [op |-> "create_memory_from_telegram", user_id |-> u, title |-> in.title,
                   content |-> in.content, api |-> api, db |-> db, result |-> Result(out)]
        /\ replies' = << >>
        /\ calls' = {}
        /\ UNCHANGED <<codes, conns, now, pool, created, successes, linked, pc, loc>>

CreateFile(u, in, file_name, relay, api, db) ==
    LET out == CreateMemoryWithFile(memories, memory_files, u, in.title, in.content,
                                    file_name, "document", relay, api, db)
    IN  /\ Len(out.memories) <= MaxStored
        /\ memories' = out.memories
        /\ memory_files' = out.memory_files
        /\ ret' = [op |-> "create_memory_with_file", user_id |-> u, title |-> in.title,
                   content |-> in.content, relay |-> relay, api |-> api, db |-> db,
                   result |-> Result(out)]
        /\ replies' = << >>
        /\ calls' = {}
        /\ UNCHANGED <<codes, conns, now, pool, created, successes, linked, pc, loc>>

NextMem ==
    \/ \E u \in Users, in \in MemoryInputs, api \in EmbedOutcomes,
          db \in MemoryDbOutcomes \ {"insert_file"} :
            CreateText(u, in, api, db)
    \/ \E u \in Users, in \in {i \in MemoryInputs : ~IsBlank(i.content)},
          file_name \in FileNames, relay \in RelayOutcomes, api \in EmbedOutcomes,
          db \in MemoryDbOutcomes :
            CreateFile(u, in, file_name, relay, api, db)

SpecMem == Init /\ [][NextMem]_vars

\* ------------------------------------------------------------- search, embed
\* query strings: a letter in the other case, a LIKE metacharacter, a blank
SearchQueries == { <<"H">>, <<"_">>, <<" ">> }
SearchLimits == {1, 2}

\* texts handed to generate_embedding
EmbedTexts == { << >>, <<" ", "\t", "\n">>, <<" ", "a", " ">>, <<"h", "i">> }

Search(u, query, limit, api) ==
    /\ \E rows \in SearchMemories(memories, u, query, limit, api) :
          ret' = [op |-> "search_memories", user_id |-> u, query |-> query, limit |-> limit,
                  query_embedding |-> GenerateEmbedding(query, api), result |-> rows]
    /\ replies' = << >>
    /\ calls' = {}
    /\ UNCHANGED <<codes, conns, memories, memory_files, now, pool, created, successes, linked, pc, loc>>

Embed(text, api) ==
    LET out == GenerateEmbeddingCall(text, api)
    IN  /\ ret' = [op |-> "generate_embedding", text |-> text, api |-> api,
                   result |-> out.embedding, network_calls |-> out.network_calls]
        /\ replies' = << >>
        /\ calls' = IF out.network_calls > 0 THEN {"embeddings_api"} ELSE {}
        /\ UNCHANGED <<codes, conns, memories, memory_files, now, pool, created, successes, linked, pc, loc>>

NextSearch ==
    \/ \E u \in Users, in \in MemoryInputs, api \in EmbedApi : CreateText(u, in, api, "ok")
    \/ \E u \in Users, query \in SearchQueries, limit \in SearchLimits, api \in EmbedApi :
            Search(u, query, limit, api)
    \/ \E text \in EmbedTexts, api \in EmbedApi : Embed(text, api)

SpecSearch == Init /\ [][NextSearch]_vars

\* ------------------------------------------------ generate_embeddings_batch
\* the lists of texts handed to generate_embeddings_batch
BatchItems == { <<" ", "\t", "\n">>, <<"h", "i">> }
BatchTexts == UNION {[1..n -> BatchItems] : n \in 0..MaxBatch}

\* what the batched POST yields for n inputs: status 200 with a data list
\* (the API decides how many items it holds), another status, or an
\* exception (timeout, connection error, a body without the expected keys)
BatchOutcomes(n) ==
    {[kind |-> "ok", data |-> d] : d \in UNION {[1..k -> Vectors] : k \in 0..n}}
        \cup {[kind |-> "status", data |-> << >>], [kind |-> "exception", data |-> << >>]}

\* the exception of the batched request leaves the call
GenerateEmbeddingsBatch_NoFallback(texts, batch, apis) ==
    IF texts = << >>
    THEN [embeddings |-> << >>, raised |-> FALSE, batch_calls |-> 0, embed_calls |-> << >>,
          network_calls |-> 0]
    ELSE IF batch.kind = "ok"
    THEN [embeddings |-> batch.data, raised |-> FALSE, batch_calls |-> 1,
          embed_calls |-> << >>, network_calls |-> 1]
    ELSE IF batch.kind = "exception"
    THEN [embeddings |-> << >>, raised |-> TRUE, batch_calls |-> 1,
          embed_calls |-> << >>, network_calls |-> 1]
    ELSE [embeddings |-> [i \in DOMAIN texts |-> GenerateEmbedding(texts[i], apis[i])],
          raised |-> FALSE, batch_calls |-> 1, embed_calls |-> texts,
          network_calls |-> 1 + Cardinality({i \in DOMAIN texts :
                                    GenerateEmbeddingCall(texts[i], apis[i]).network_calls = 1})]

\* generate_embeddings_batch: the list it returns, whether an exception left
\* it, the batched requests it sent, the texts it handed to
\* generate_embedding (in order) and all the requests sent; apis[i] is what
\* the API answers to the single request for texts[i]
GenerateEmbeddingsBatch(texts, batch, apis) ==
    IF texts = << >>
    THEN [embeddings |-> << >>, raised |-> FALSE, batch_calls |-> 0, embed_calls |-> << >>,
          network_calls |-> 0]
    ELSE IF batch.kind = "ok"
    THEN [embeddings |-> batch.data, raised |-> FALSE, batch_calls |-> 1,
          embed_calls |-> << >>, network_calls |-> 1]
    ELSE [embeddings |-> [i \in DOMAIN texts |-> GenerateEmbedding(texts[i], apis[i])],
          raised |-> FALSE, batch_calls |-> 1, embed_calls |-> texts,
          network_calls |-> 1 + Cardinality({i \in DOMAIN texts :
                                    GenerateEmbeddingCall(texts[i], apis[i]).network_calls = 1})]

EmbedBatch(texts, batch, apis) ==
    LET out == GenerateEmbeddingsBatch(texts, batch, apis)
    IN  /\ ret' = [op |-> "generate_embeddings_batch", texts |-> texts, batch |-> batch,
                   apis |-> apis, result |-> out.embeddings, raised |-> out.raised,
                   batch_calls |-> out.batch_calls, embed_calls |-> out.embed_calls,
                   network_calls |-> out.network_calls]
        /\ replies' = << >>
        /\ calls' = IF out.network_calls > 0 THEN {"embeddings_api"} ELSE {}
        /\ UNCHANGED <<codes, conns, memories, memory_files, now, pool, created, successes, linked, pc, loc>>

NextEmbed ==
    \/ \E text \in EmbedTexts, api \in EmbedApi : Embed(text, api)
    \/ \E texts \in BatchTexts :
          \E batch \in BatchOutcomes(Len(texts)), apis \in [DOMAIN texts -> EmbedApi] :
            EmbedBatch(texts, batch, apis)

SpecEmbed == Init /\ [][NextEmbed]_vars

\* ------------------------------------------------------ image_analysis_service
\* the max_length arguments of _sanitize_text and the slice of the tag list
TitleLimit == 100
ContentLimit == 500
TagLimit == 30
CategoryLimit == 50
TagCount == 5

Ellipsis == <<".", ".", ".">>
OtherCategory == <<"O", "t", "h", "e", "r">>
UploadedImage == <<"U", "p", "l", "o", "a", "d", "e", "d", " ", "I", "m", "a", "g", "e">>
\* "Image uploaded from Telegram"
DefaultContent ==
    <<"I", "m", "a", "g", "e", " ", "u", "p", "l", "o", "a", "d", "e", "d", " ",
      "f", "r", "o", "m", " ", "T", "e", "l", "e", "g", "r", "a", "m">>

\* text.split(): the maximal runs of characters that are not whitespace.
\* The words of text[lo..hi] are those of its two halves, the word that
\* crosses the middle being put together again.
RECURSIVE SplitRange(_, _, _)
SplitRange(text, lo, hi) ==
    IF lo > hi THEN << >>
    ELSE IF lo = hi
    THEN IF text[lo] \in Whitespace THEN << >> ELSE << <<text[lo]>> >>
    ELSE LET mid == (lo + hi) \div 2
             L == SplitRange(text, lo, mid)
             R == SplitRange(text, mid + 1, hi)
         IN  IF text[mid] \notin Whitespace /\ text[mid + 1] \notin Whitespace
             THEN SubSeq(L, 1, Len(L) - 1) \o << L[Len(L)] \o R[1] >> \o Tail(R)
             ELSE L \o R
Split(text) == SplitRange(text, 1, Len(text))

\* sep.join(words), by halves
RECURSIVE JoinRange(_, _, _, _)
JoinRange(words, sep, lo, hi) ==
    IF lo > hi THEN << >>
    ELSE IF lo = hi THEN words[lo]
    ELSE LET mid == (lo + hi) \div 2
         IN  JoinRange(words, sep, lo, mid) \o sep \o JoinRange(words, sep, mid + 1, hi)
Join(words, sep) == JoinRange(words, sep, 1, Len(words))

\* " ".join(text.split())
Normalise(text) == Join(Split(text), <<" ">>)

\* word.capitalize(): the first character in upper case, the others in lower case
Capitalize(word) ==
    [i \in DOMAIN word |-> IF i = 1 THEN UpperChar(word[i]) ELSE LowerChar(word[i])]

\* _extract_title_from_filename
ExtractTitleFromFilename(filename) ==
    LET dots == {i \in DOMAIN filename : filename[i] = "."}
        last == CHOOSE i \in dots : \A j \in dots : j <= i
        name_without_ext == IF dots = {} THEN filename ELSE SubSeq(filename, 1, last - 1)
        cleaned == [i \in DOMAIN name_without_ext |->
                       IF name_without_ext[i] \in {"_", "-"} THEN " " ELSE name_without_ext[i]]
        words == Split(cleaned)
        title == Join([k \in DOMAIN words |-> Capitalize(words[k])], <<" ">>)
    IN  IF title # << >> THEN title ELSE UploadedImage

\* the slice keeps max_length characters, the marker is added to them
SanitizeText_NoRoomForMarker(text, max_length) ==
    IF text = << >> THEN << >>
    ELSE LET cleaned == Normalise(text)
         IN  IF Len(cleaned) > max_length
             THEN Take(cleaned, max_length) \o Ellipsis
             ELSE cleaned

\* _sanitize_text on a string
SanitizeText(text, max_length) ==
    IF text = << >> THEN << >>
    ELSE LET cleaned == Normalise(text)
         IN  IF Len(cleaned) > max_length
             THEN Take(cleaned, max_length - 3) \o Ellipsis
             ELSE cleaned

\* the fallback reports the confidence of an analysis without a confidence key
FallbackAnalysis_DefaultConfidence(filename, content) ==
    [title |-> ExtractTitleFromFilename(filename),
     content |-> IF content # << >> THEN Take(content, ContentLimit) ELSE DefaultContent,
     tags |-> << >>,
     category |-> OtherCategory,
     confidence |-> 50]

\* _fallback_analysis; confidence is in hundredths
FallbackAnalysis(filename, content) ==
    [title |-> ExtractTitleFromFilename(filename),
     content |-> IF content # << >> THEN Take(content, ContentLimit) ELSE DefaultContent,
     tags |-> << >>,
     category |-> OtherCategory,
     confidence |-> 0]

\* values of the keys of the parsed JSON object: a string, a number or no such key
Str(v) == [type |-> "str", value |-> v, number |-> 0]
Num(n) == [type |-> "num", value |-> << >>, number |-> n]
Absent == [type |-> "absent", value |-> << >>, number |-> 0]

\* max(0, min(1, float(...))), in hundredths
Clamp(c) == IF c < 0 THEN 0 ELSE IF c > 100 THEN 100 ELSE c

\* analyze_image_from_url.  vision is what the chat-completions request
\* yields: a status other than 200, an exception, a body with no message, a
\* message json.loads rejects, a message that parses to something that is no
\* object, or a message that parses to an object.  A key holding a number
\* where a string is expected makes _sanitize_text raise AttributeError,
\* which the outer except clause turns into the fallback.
AnalyzeImageFromUrl(filename, vision) ==
    IF vision.kind \in {"status", "exception", "no_message", "not_object"}
    THEN FallbackAnalysis(filename, << >>)
    ELSE IF vision.kind = "unparseable"
    THEN FallbackAnalysis(filename, vision.message)
    ELSE LET analysis == vision.analysis
             bad == \/ analysis.title.type = "num"
                    \/ analysis.content.type = "num"
                    \/ analysis.category.type = "num"
                    \/ analysis.confidence.type = "str"
         IN  IF bad
             THEN FallbackAnalysis(filename, << >>)
             ELSE [title |-> SanitizeText(IF analysis.title.type = "absent"
                                          THEN ExtractTitleFromFilename(filename)
                                          ELSE analysis.title.value, TitleLimit),
                   content |-> SanitizeText(analysis.content.value, ContentLimit),
                   tags |-> [k \in 1..(IF Len(analysis.tags) < TagCount
                                       THEN Len(analysis.tags) ELSE TagCount) |->
                                SanitizeText(analysis.tags[k], TagLimit)],
                   category |-> SanitizeText(IF analysis.category.type = "absent"
                                             THEN OtherCategory
                                             ELSE analysis.category.value, CategoryLimit),
                   confidence |-> Clamp(IF analysis.confidence.type = "absent"
                                        THEN 50 ELSE analysis.confidence.number)]

\* input strings of a given length
Repeat(c, n) == [i \in 1..n |-> c]
\* words of six characters, one blank between them
Spaced(n) == [i \in 1..n |-> IF i % 7 = 0 THEN " " ELSE "x"]
\* words of five characters, two blanks between them
DoubleSpaced(n) == [i \in 1..n |-> IF i % 7 \in {0, 6} THEN " " ELSE "x"]

\* file names: the photo handler passes "photo_<file_id>.jpg", documents
\* carry the sender's name for the file
ImageFileNames ==
    { <<"m", "y", "_", "t", "r", "i", "p", "-", "p", "h", "o", "t", "o", ".", "j", "p", "g">>,
      <<"i", "m", "a", "g", "e">>,
      <<"a", ".", "b", ".", "c">>,
      <<"I", "M", "G", "_", "x", "Y", ".", "J", "P", "G">>,
      <<".", "j", "p", "g">>,
      <<"_", "-", " ", ".", "p", "n", "g">>,
      <<"x", "-", "Y", "z", ".", "t", "a", "r", ".", "g", "z">>,
      <<"p", "h", "o", "t", "o", "_">> \o Repeat("A", TitleLimit) \o <<".", "j", "p", "g">> }

NoAnalysis ==
    [title |-> Absent, content |-> Absent, tags |-> << >>, category |-> Absent,
     confidence |-> Absent]

VisionOutcome(kind, message, analysis) ==
    [kind |-> kind, message |-> message, analysis |-> analysis]

\* parsed objects: well-formed; every field too long by one, six tags,
\* confidence above 1; every field at its limit, confidence below 0; no key
\* at all; runs of whitespace; a number where the title should be
VisionObjects ==
    { [title |-> Str(<<"S", "u", "n">>), content |-> Str(<<"s", "k", "y">>),
       tags |-> << <<"a">>, <<"b">> >>, category |-> Str(<<"A", "r", "t">>),
       confidence |-> Num(95)],
      [title |-> Str(Repeat("t", TitleLimit + 1)),
       content |-> Str(Spaced(ContentLimit + 1)),
       tags |-> [k \in 1..(TagCount + 1) |-> Repeat("g", TagLimit + 1)],
       category |-> Str(Repeat("c", CategoryLimit + 1)),
       confidence |-> Num(150)],
      [title |-> Str(Repeat("t", TitleLimit)),
       content |-> Str(Repeat("d", ContentLimit)),
       tags |-> << Repeat("g", TagLimit) >>,
       category |-> Str(Repeat("c", CategoryLimit)),
       confidence |-> Num(0 - 10)],
      NoAnalysis,
      [title |-> Str(<<" ", "A", " ", "\n", "B", "\t">>), content |-> Str(<<" ">>),
       tags |-> << <<" ", "a", " ", " ", "b">> >>, category |-> Absent,
       confidence |-> Absent],
      [title |-> Num(7), content |-> Str(<<"s", "k", "y">>),
       tags |-> << >>, category |-> Absent, confidence |-> Num(95)] }

\* messages json.loads rejects: prose, and prose longer than the content limit
VisionMessages == { <<"n", "o", " ", " ", "i", "d", "e", "a">>, Repeat("z", ContentLimit + 1) }

VisionOutcomes ==
    {VisionOutcome(k, << >>, NoAnalysis) : k \in {"status", "exception", "no_message", "not_object"}}
        \cup {VisionOutcome("unparseable", m, NoAnalysis) : m \in VisionMessages}
        \cup {VisionOutcome("object", << >>, a) : a \in VisionObjects}

Describe(filename, vision) ==
    /\ ret' = [op |-> "analyze_image_from_url", filename |-> filename, vision |-> vision,
               result |-> AnalyzeImageFromUrl(filename, vision)]
    /\ replies' = << >>
    /\ calls' = {}
    /\ UNCHANGED <<codes, conns, memories, memory_files, now, pool, created, successes, linked, pc, loc>>

\* the max_length values _sanitize_text is called with
FieldLimits == {TitleLimit, ContentLimit, TagLimit, CategoryLimit}

\* texts around a limit: shorter, as long, longer; longer only before the
\* whitespace is normalised; longer after it too; empty; blank
SanitizeTexts(max_length) ==
    { Repeat("x", max_length - 1), Repeat("x", max_length), Repeat("x", max_length + 1),
      DoubleSpaced(max_length + 5), Spaced(max_length + 3),
      <<" ">> \o Repeat("x", max_length) \o <<" ", "\n">>,
      << >>, <<" ", "\t">> }

Sanitize(text, max_length) ==
    /\ ret' = [op |-> "_sanitize_text", text |-> text, max_length |-> max_length,
               result |-> SanitizeText(text, max_length)]
    /\ replies' = << >>
    /\ calls' = {}
    /\ UNCHANGED <<codes, conns, memories, memory_files, now, pool, created, successes, linked, pc, loc>>

NextImage ==
    \/ \E filename \in ImageFileNames, vision \in VisionOutcomes : Describe(filename, vision)
    \/ \E max_length \in FieldLimits : \E text \in SanitizeTexts(max_length) :
            Sanitize(text, max_length)

SpecImage == Init /\ [][NextImage]_vars

\* ------------------------------------------------------------ storage_service
\* the error strings of process_telegram_file
DownloadFailed == "Failed to download file from Telegram"
UploadFailed == "Failed to upload file to storage"

\* download_telegram_file: the length of response.content, or None when the
\* request raised or raise_for_status did
FileSizes == {0, 1, 2}
Downloads == {[ok |-> FALSE, size |-> 0]} \cup {[ok |-> TRUE, size |-> n] : n \in FileSizes}

\* upload_to_supabase: the public URL of the stored object, or None
Uploads == {"stored", "raise"}

RelayFileNames == FileNames \cup { <<"n", "o", "t", "e">> }
ContentTypes == {"image/jpeg", "application/pdf"}

\* f"{user_id}/{timestamp}_{file_name}"
StoragePath(u, t, file_name) == [user_id |-> u, timestamp |-> t, file_name |-> file_name]

\* process_telegram_file: what it returns and the requests it made;
\* "if not file_bytes" is true for None and for b""
ProcessTelegramFile(u, file_name, download, upload, t) ==
    IF ~download.ok \/ download.size = 0
    THEN [success |-> FALSE, error |-> DownloadFailed, requests |-> {"download"}]
    ELSE IF upload = "raise"
    THEN [success |-> FALSE, error |-> UploadFailed, requests |-> {"download", "upload"}]
    ELSE [success |-> TRUE, public_url |-> StoragePath(u, t, file_name),
          file_size |-> download.size, requests |-> {"download", "upload"}]

Relay(u, file_name, content_type, download, upload) ==
    LET out == ProcessTelegramFile(u, file_name, download, upload, now)
    IN  /\ ret' = [op |-> "process_telegram_file", user_id |-> u, file_name |-> file_name,
                   content_type |-> content_type, download |-> download, upload |-> upload,
                   result |-> [k \in DOMAIN out \ {"requests"} |-> out[k]]]
        /\ replies' = << >>
        /\ calls' = out.requests
        /\ UNCHANGED <<codes, conns, memories, memory_files, now, pool, created, successes, linked, pc, loc>>

NextRelay ==
    \/ \E u \in Users, file_name \in RelayFileNames, content_type \in ContentTypes,
          download \in Downloads, upload \in Uploads :
            Relay(u, file_name, content_type, download, upload)
    \/ \E d \in TickSteps : Tick(d)

SpecRelay == Init /\ [][NextRelay]_vars

\* ------------------------------------------- concurrent calls, statement by statement
\* Every await on the database connection is a point where another request runs.
InFlight(names) == {p \in Procs : pc[p] \in names}

Return(p, r) ==
    /\ pc' = [pc EXCEPT ![p] = "idle"]
    /\ loc' = [loc EXCEPT ![p] = NoLocals]
    /\ ret' = r

Goto(p, label) ==
    /\ pc' = [pc EXCEPT ![p] = label]
    /\ ret' = [op |-> "step"]

\* generate_auth_code up to its first statement: the code and expires_at are computed
GenBegin(p, u, stream) ==
    /\ pc[p] = "idle"
    /\ Len(codes) + Cardinality(InFlight({"gen_update", "gen_insert"})) < MaxCodes
    /\ Goto(p, "gen_update")
    /\ loc' = [loc EXCEPT ![p] = [op |-> "generate", user_id |-> u,
                                  code |-> RandomCode(stream), expires_at |-> ExpiresAt(now)]]
    /\ UNCHANGED <<codes, conns, memories, memory_files, now, pool, created, replies, calls, successes, linked>>

GenUpdate(p) ==
    /\ pc[p] = "gen_update"
    /\ codes' = InvalidateCodes(codes, loc[p].user_id)
    /\ Goto(p, "gen_insert")
    /\ UNCHANGED <<conns, memories, memory_files, now, pool, created, replies, calls, successes, linked, loc>>

GenInsert(p) ==
    /\ pc[p] = "gen_insert"
    /\ codes' = InsertCode(codes, loc[p].user_id, loc[p].code, loc[p].expires_at)
    /\ successes' = Append(successes, 0)
    /\ linked' = Append(linked, FALSE)
    /\ Return(p, [op |-> "generate", user_id |-> loc[p].user_id, code |-> loc[p].code])
    /\ UNCHANGED <<conns, memories, memory_files, now, pool, created, replies, calls>>

VerifyFailure(code, chat, row, error) ==
    [op |-> "verify", code |-> code, chat |-> chat, row |-> row,
     success |-> FALSE, error |-> error]

\* the code lookup and the three guards on its row
VerLookup(p, code, chat) ==
    LET row   == LookupCode(codes, code)
        check == CheckCode(codes, row, now)
    IN  /\ pc[p] = "idle"
        /\ IF check # "ok"
           THEN Return(p, VerifyFailure(code, chat, row, check))
           ELSE /\ Goto(p, "ver_existing")
                /\ loc' = [loc EXCEPT ![p] = [op |-> "verify", code |-> code, chat |-> chat,
                                              row |-> row, user_id |-> codes[row].user_id]]
        /\ UNCHANGED <<codes, conns, memories, memory_files, now, pool, created, replies, calls,
                       successes, linked>>

\* the lookup of the chat identity's active connection and the guard on it
VerExisting(p) ==
    /\ pc[p] = "ver_existing"
    /\ IF ConnectedElsewhere(conns, loc[p].chat, loc[p].user_id)
       THEN Return(p, VerifyFailure(loc[p].code, loc[p].chat, loc[p].row,
                                    AlreadyConnectedElsewhere))
       ELSE Goto(p, "ver_upsert") /\ UNCHANGED loc
    /\ UNCHANGED <<codes, conns, memories, memory_files, now, pool, created, replies, calls, successes, linked>>

VerUpsert(p) ==
    /\ pc[p] = "ver_upsert"
    /\ conns' = UpsertConnection(conns, loc[p].user_id, loc[p].chat, SenderProfile(loc[p].chat))
    /\ linked' = [linked EXCEPT ![loc[p].row] = TRUE]
    /\ Goto(p, "ver_mark")
    /\ UNCHANGED <<codes, memories, memory_files, now, pool, created, replies, calls, successes, loc>>

VerMark(p) ==
    /\ pc[p] = "ver_mark"
    /\ codes' = MarkCodeUsed(codes, loc[p].code)
    /\ successes' = [successes EXCEPT ![loc[p].row] = @ + 1]
    /\ Return(p, [op |-> "verify", code |-> loc[p].code, chat |-> loc[p].chat,
                  row |-> loc[p].row, success |-> TRUE, error |-> ""])
    /\ UNCHANGED <<conns, memories, memory_files, now, pool, created, replies, calls, linked>>

\* the statement a call is about to run raises (connection lost, timeout):
\* nothing catches it inside verify_and_connect and nothing is rolled back
VerRaise(p) ==
    /\ pc[p] \in {"ver_existing", "ver_upsert", "ver_mark"}
    /\ Return(p, [op |-> "verify_raised", at |-> pc[p], row |-> loc[p].row, chat |-> loc[p].chat])
    /\ UNCHANGED <<codes, conns, memories, memory_files, now, pool, created, replies, calls, successes, linked>>

NextConc ==
    \/ \E p \in Procs, u \in Users, stream \in Streams : GenBegin(p, u, stream)
    \/ \E p \in Procs : GenUpdate(p)
    \/ \E p \in Procs : GenInsert(p)
    \/ \E p \in Procs, code \in CodeInputs, chat \in Chats : VerLookup(p, code, chat)
    \/ \E p \in Procs : VerExisting(p)
    \/ \E p \in Procs : VerUpsert(p)
    \/ \E p \in Procs : VerMark(p)
    \/ \E p \in Procs : VerRaise(p)
    \/ \E u \in Users : Disconnect(u)

SpecConc == Init /\ [][NextConc]_vars

\* create_memory_from_telegram and create_memory_with_file, statement by
\* statement, from the point where the relay and the embedding are done
MemBegin(p, u, type) ==
    /\ pc[p] = "idle"
    /\ Len(memories) + Cardinality(InFlight({"mem_select_max", "mem_insert"})) < MaxStored
    /\ Goto(p, "mem_select_max")
    /\ loc' = [loc EXCEPT ![p] = [op |-> IF type = "text" THEN "create_memory_from_telegram"
                                         ELSE "create_memory_with_file",
                                  user_id |-> u, type |-> type]]
    /\ UNCHANGED <<codes, conns, memories, memory_files, now, pool, created, replies, calls, successes, linked>>

\* next_index = (max_index or 0) + 1
MemSelectMax(p) ==
    /\ pc[p] = "mem_select_max"
    /\ Goto(p, "mem_insert")
    /\ loc' = [loc EXCEPT ![p] =
                  [op |-> loc[p].op, user_id |-> loc[p].user_id, type |-> loc[p].type,
                   next_index |-> MaxIndex(memories, loc[p].user_id) + 1]]
    /\ UNCHANGED <<codes, conns, memories, memory_files, now, pool, created, replies, calls, successes, linked>>

MemInsert(p) ==
    /\ pc[p] = "mem_insert"
    /\ memories' = InsertMemory(memories, MemoryRow(loc[p].user_id, <<"T">>, <<"h", "i">>,
                                                    loc[p].type, "v1", loc[p].next_index))
    /\ IF loc[p].type = "file"
       THEN /\ Goto(p, "mem_insert_file")
            /\ loc' = [loc EXCEPT ![p] =
                          [op |-> loc[p].op, user_id |-> loc[p].user_id, type |-> loc[p].type,
                           memory_id |-> Len(memories) + 1]]
       ELSE Return(p, [op |-> loc[p].op, user_id |-> loc[p].user_id,
                       result |-> [success |-> TRUE, memory_id |-> Len(memories) + 1,
                                   has_embedding |-> TRUE]])
    /\ UNCHANGED <<codes, conns, memory_files, now, pool, created, replies, calls, successes, linked>>

MemInsertFile(p) ==
    /\ pc[p] = "mem_insert_file"
    /\ memory_files' = InsertMemoryFile(memory_files, loc[p].memory_id,
                                        <<"a", ".", "b">>, "document")
    /\ Return(p, [op |-> loc[p].op, user_id |-> loc[p].user_id,
                  result |-> [success |-> TRUE, memory_id |-> loc[p].memory_id,
                              file_url |-> "public_url"]])
    /\ UNCHANGED <<codes, conns, memories, now, pool, created, replies, calls, successes, linked>>

NextMemConc ==
    \/ \E p \in Procs, u \in Users, type \in {"text", "file"} : MemBegin(p, u, type)
    \/ \E p \in Procs : MemSelectMax(p)
    \/ \E p \in Procs : MemInsert(p)
    \/ \E p \in Procs : MemInsertFile(p)

SpecMemConc == Init /\ [][NextMemConc]_vars

\* ------------------------------------------------------------------ database
\* the handlers and endpoints whose first step is get_db_pool
PoolCallers ==
    {"cmd_connect", "cmd_status", "handle_text_message",
     "generate_auth_code", "detailed_health_check"}

\* get_db_pool up to the await inside init_db_pool: "if not _pool", then
\* either "return _pool" or the call of asyncpg.create_pool, which suspends
PoolCheck(p, caller) ==
    /\ pc[p] = "idle"
    /\ IF pool # 0
       THEN Return(p, [op |-> "get_db_pool", caller |-> caller, proc |-> p, result |-> pool])
       ELSE /\ Goto(p, "pool_create")
            /\ loc' = [loc EXCEPT ![p] = [op |-> "get_db_pool", caller |-> caller]]
    /\ UNCHANGED <<codes, conns, memories, memory_files, now, replies, calls,
                   successes, linked, pool, created>>

\* asyncpg.create_pool completes.  init_db_pool assigns the new pool to
\* _pool and returns it, get_db_pool assigns it again and returns it, with no
\* suspension in between; or create_pool raised, and init_db_pool re-raises
PoolCreate(p, dep) ==
    /\ pc[p] = "pool_create"
    /\ IF dep = "raise"
       THEN /\ Return(p, [op |-> "get_db_pool_raised", caller |-> loc[p].caller, proc |-> p])
            /\ UNCHANGED <<pool, created>>
       ELSE /\ created' = created + 1
            /\ pool' = created + 1
            /\ Return(p, [op |-> "get_db_pool", caller |-> loc[p].caller, proc |-> p,
                          result |-> created + 1])
    /\ UNCHANGED <<codes, conns, memories, memory_files, now, replies, calls,
                   successes, linked>>

NextPool ==
    \/ \E p \in Procs, caller \in PoolCallers : PoolCheck(p, caller)
    \/ \E p \in Procs, dep \in PoolOutcomes : PoolCreate(p, dep)

SpecPool == Init /\ [][NextPool]_vars

\* requests to the server-to-server endpoints, and chat identities connecting
NextApi ==
    \/ \E u \in Users, stream \in Streams, header \in ApiHeaders,
          dep \in PoolOutcomes, db \in DbOutcomes :
            ApiGenerateAuthCode(u, stream, header, dep, db)
    \/ \E u \in Users, header \in ApiHeaders, dep \in PoolOutcomes, db \in DbOutcomes :
            ApiGetConnectionStatus(u, header, dep, db)
    \/ \E u \in Users, header \in ApiHeaders, dep \in PoolOutcomes, db \in DbOutcomes :
            ApiDisconnectTelegram(u, header, dep, db)
    \/ \E code \in CodeInputs, chat \in Chats : Verify(code, chat, SenderProfile(chat))

SpecApi == Init /\ [][NextApi]_vars

Next ==
    \/ \E u \in Users, stream \in Streams : Generate(u, stream)
    \/ \E code \in CodeInputs, chat \in Chats, prof \in Profiles : Verify(code, chat, prof)
    \/ \E u \in Users : Disconnect(u)
    \/ \E d \in TickSteps : Tick(d)

Spec == Init /\ [][Next]_vars

\* ================================================================ properties
UnusedRowsOf(cs, u) == {i \in DOMAIN cs : cs[i].user_id = u /\ ~cs[i].is_used}
RowsOfChat(cn, chat) == {i \in DOMAIN cn : cn[i].telegram_user_id = chat}
HasActiveRow(cn, chat) == \E i \in RowsOfChat(cn, chat) : cn[i].is_active
MemoriesOf(ms, u) == {i \in DOMAIN ms : ms[i].user_id = u}

\* C1: in every reachable state, under every statement-level interleaving of
\* concurrent generate_auth_code calls, each user has at most one auth-code
\* row with is_used = false.
C1_AtMostOneUnusedCodePerUser ==
    \A u \in Users : Cardinality(UnusedRowsOf(codes, u)) <= 1

\* C2: a generate_auth_code(u) call that runs with nothing interleaved leaves
\* every earlier row of u used, adds exactly one row, which is the only unused
\* row of u, leaves the rows of every other user as they were, and a
\* verify_and_connect whose lookup lands on an earlier row of u then fails.
C2_GenerateInvalidatesPrior ==
    [][ret'.op = "generate" =>
        LET u == ret'.user_id IN
        /\ Len(codes') = Len(codes) + 1
        /\ \A i \in DOMAIN codes :
              /\ codes[i].user_id = u => codes'[i].is_used
              /\ codes[i].user_id # u => codes'[i] = codes[i]
        /\ UnusedRowsOf(codes', u) = {Len(codes')}
        /\ codes'[Len(codes')].code = ret'.code
        /\ \A c \in CodeInputs, chat \in Chats, prof \in Profiles :
              LET out == VerifyAndConnect(codes', conns', c, chat, prof, now')
              IN  (out.row \in DOMAIN codes /\ codes[out.row].user_id = u) => ~out.success
    ]_vars

\* a second code was generated for a user whose first code was still unused
C2_Witness ==
    /\ ret.op = "generate"
    /\ Len(codes) = 2
    /\ codes[1].user_id = ret.user_id
    /\ codes[1].is_used
    /\ successes[1] = 0
    /\ ~codes[2].is_used

\* C3: for every auth-code row at most one verify_and_connect call ever
\* returns success, also when two calls with the same code interleave between
\* the lookup and the statement that marks the code used.
C3_OneTimeCode ==
    \A i \in DOMAIN successes : successes[i] <= 1

\* C4: the connection upsert and the marking of the code are one unit: no
\* reachable state has a code marked used by verify_and_connect without the
\* connection having been written for it, and none has the connection written
\* for a code that is still unused.
C4_UpsertAndMarkAtomic ==
    \A i \in DOMAIN codes :
        /\ successes[i] > 0 => linked[i]
        /\ linked[i] => codes[i].is_used

\* C5: there is at most one connection row per chat identity, and a
\* successful verify_and_connect for a chat identity that already has a row
\* updates that row and adds none.
C5_OneRowPerChat ==
    /\ [](\A chat \in Chats : Cardinality(RowsOfChat(conns, chat)) <= 1)
    /\ [][(ret'.op = "verify" /\ ret'.success /\ RowsOfChat(conns, ret'.chat) # {}) =>
            /\ Len(conns') = Len(conns)
            /\ RowsOfChat(conns', ret'.chat) = RowsOfChat(conns, ret'.chat)
            /\ \A i \in DOMAIN conns :
                  conns[i].telegram_user_id # ret'.chat => conns'[i] = conns[i]]_vars

\* both codes were verified from the same chat identity and one row serves both
C5_Witness ==
    /\ ret.op = "verify"
    /\ ret.success
    /\ Len(codes) = 2
    /\ successes[1] = 1
    /\ successes[2] = 1
    /\ Len(conns) = 1

\* C6: with a valid code, verify_and_connect fails with
\* AlreadyConnectedElsewhere when the chat identity has an active connection of
\* another user; when its active connection belongs to the code's user the
\* call succeeds, the connection stays active for that user and carries the
\* profile fields passed in the call.
C6_ConnectedElsewhereOrReconnect ==
    [][(/\ ret'.op = "verify"
        /\ ret'.row # 0
        /\ ~codes[ret'.row].is_used
        /\ now <= codes[ret'.row].expires_at) =>
        LET u     == codes[ret'.row].user_id
            chat  == ret'.chat
            other == \E i \in RowsOfChat(conns, chat) :
                        conns[i].is_active /\ conns[i].user_id # u
            same  == \E i \in RowsOfChat(conns, chat) :
                        conns[i].is_active /\ conns[i].user_id = u
        IN  /\ other => /\ ~ret'.success
                        /\ ret'.error = AlreadyConnectedElsewhere
                        /\ conns' = conns
                        /\ codes' = codes
            /\ (same /\ ~other) =>
                  /\ ret'.success
                  /\ \A i \in RowsOfChat(conns', chat) :
                        /\ conns'[i].is_active
                        /\ conns'[i].user_id = u
                        /\ conns'[i].telegram_username = ret'.profile.username
                        /\ conns'[i].telegram_first_name = ret'.profile.first_name
                        /\ conns'[i].telegram_last_name = ret'.profile.last_name
                  /\ RowsOfChat(conns', chat) # {}
    ]_vars

\* a valid code of one user was refused for a chat identity linked to another
C6_Witness ==
    /\ ret.op = "verify"
    /\ ret.error = AlreadyConnectedElsewhere
    /\ ~codes[ret.row].is_used
    /\ \E i \in RowsOfChat(conns, ret.chat) :
          conns[i].is_active /\ conns[i].user_id # codes[ret.row].user_id

\* C7: a verify_and_connect whose lookup lands on an unused row and whose
\* current time is later than the row's expires_at fails with CodeExpired and
\* writes nothing, whatever the chat identity and the existing connections.
C7_ExpiredCodeFails ==
    [][(/\ ret'.op = "verify"
        /\ ret'.row # 0
        /\ ~codes[ret'.row].is_used
        /\ now > codes[ret'.row].expires_at) =>
        /\ ~ret'.success
        /\ ret'.error = CodeExpired
        /\ conns' = conns
        /\ codes' = codes
    ]_vars

\* an unused code was presented one minute after its expiry
C7_Witness ==
    /\ ret.op = "verify"
    /\ ret.error = CodeExpired
    /\ ~codes[ret.row].is_used
    /\ now > codes[ret.row].expires_at

\* C8: a verify_and_connect whose lookup lands on a row with is_used = true
\* fails with CodeAlreadyUsed, also when the row has not expired, whether the
\* row was consumed by a verification or invalidated by a later generate.
C8_UsedCodeFails ==
    [][(/\ ret'.op = "verify"
        /\ ret'.row # 0
        /\ codes[ret'.row].is_used) =>
        /\ ~ret'.success
        /\ ret'.error = CodeAlreadyUsed
        /\ conns' = conns
        /\ codes' = codes
    ]_vars

\* an unexpired code that a later generate had invalidated was refused
C8_Witness ==
    /\ ret.op = "verify"
    /\ ret.error = CodeAlreadyUsed
    /\ now <= codes[ret.row].expires_at
    /\ successes[ret.row] = 0

ConnectPrompt == <<Reply("connect_prompt", "")>>
StatusLookupOnly == {"get_connection_status_by_telegram"}

\* C9: the end-to-end sequence, step by step.  generate_auth_code returns a
\* code of AUTH_CODE_LENGTH characters over upper-case letters and digits and
\* stores it unused; /connect with the unused, unexpired code from a chat
\* identity without a connection replies success and links the chat identity
\* to the code's user; /status from a connected chat identity reports the
\* number of memories of its user (0 when there are none); a text message from
\* a connected chat identity raises that number by one.
C9_EndToEnd ==
    [][/\ ret'.op = "generate" =>
            /\ Len(ret'.code) = AUTH_CODE_LENGTH
            /\ \A k \in 1..Len(ret'.code) : ret'.code[k] \in Alphabet
            /\ codes'[Len(codes')] = [user_id |-> ret'.user_id, code |-> ret'.code,
                                      expires_at |-> now + AUTH_CODE_EXPIRY_MINUTES,
                                      is_used |-> FALSE]
       /\ (/\ ret'.op = "cmd_connect"
           /\ RowsOfChat(conns, ret'.chat) = {}
           /\ ret'.args # << >>
           /\ \E i \in DOMAIN codes :
                 /\ codes[i].code = ret'.args[1]
                 /\ \A j \in DOMAIN codes : j > i => codes[j].code # codes[i].code
                 /\ ~codes[i].is_used
                 /\ now <= codes[i].expires_at) =>
            /\ replies' = <<Reply("connected_successfully", "")>>
            /\ \E i \in DOMAIN codes, r \in RowsOfChat(conns', ret'.chat) :
                 /\ codes[i].code = ret'.args[1]
                 /\ \A j \in DOMAIN codes : j > i => codes[j].code # codes[i].code
                 /\ conns'[r].is_active
                 /\ conns'[r].user_id = codes[i].user_id
                 /\ codes'[i].is_used
       /\ (ret'.op = "cmd_status" /\ HasActiveRow(conns, ret'.chat)) =>
            \E r \in RowsOfChat(conns, ret'.chat) :
                replies' = <<Reply("status_connected",
                                   Cardinality(MemoriesOf(memories, conns[r].user_id)))>>
       /\ (ret'.op = "handle_text_message" /\ HasActiveRow(conns, ret'.chat)) =>
            \E r \in RowsOfChat(conns, ret'.chat) :
                /\ replies' = <<Reply("memory_saved", "")>>
                /\ Len(memories') = Len(memories) + 1
                /\ Cardinality(MemoriesOf(memories', conns[r].user_id))
                      = Cardinality(MemoriesOf(memories, conns[r].user_id)) + 1
    ]_vars

\* /status reports one memory: a code was generated, the chat identity
\* connected with it and one message was saved
C9_Witness ==
    /\ ret.op = "cmd_status"
    /\ Len(replies) = 1
    /\ replies[1].kind = "status_connected"
    /\ replies[1].detail = 1
    /\ Len(memories) = 1
    /\ memories[1].type = "text"
    /\ \E i \in DOMAIN codes : successes[i] = 1

GatedHandlers ==
    {"cmd_list", "cmd_search", "handle_text_message", "handle_photo_message",
     "handle_document_message"}

\* what a gated handler does for a sender without an active connection
OnlyConnectPrompt ==
    /\ replies' = ConnectPrompt
    /\ calls' = StatusLookupOnly
    /\ UNCHANGED <<codes, conns, memories, memory_files>>

\* C10 as stated: /add, /help, /list, /search, text, photo and document events
\* from a sender without an active connection resolve the connection status,
\* send only the connect prompt and do nothing else.
C10_AllHandlersGated ==
    [][(/\ ret'.op \in GatedHandlers \cup {"cmd_add", "cmd_help"}
        /\ ~HasActiveRow(conns, ret'.chat)) => OnlyConnectPrompt]_vars

\* C10 amended: /list, /search, text, photo and document events from a sender
\* without an active connection resolve the connection status, send only the
\* connect prompt and do nothing else; /add and /help make no service call,
\* change nothing and reply with their fixed text to every sender.
C10_GatedHandlers ==
    [][/\ (ret'.op \in GatedHandlers /\ ~HasActiveRow(conns, ret'.chat)) => OnlyConnectPrompt
       /\ ret'.op \in {"cmd_add", "cmd_help"} =>
            /\ replies' = <<Reply(IF ret'.op = "cmd_add" THEN "add_instructions" ELSE "help", "")>>
            /\ calls' = {}
            /\ UNCHANGED <<codes, conns, memories, memory_files>>
    ]_vars

\* a disconnected sender, whose account already holds a memory, sent a photo
\* and got the connect prompt
C10_Witness ==
    /\ ret.op = "handle_photo_message"
    /\ replies = ConnectPrompt
    /\ calls = StatusLookupOnly
    /\ Len(memories) = 1
    /\ \E i \in RowsOfChat(conns, ret.chat) :
          ~conns[i].is_active /\ conns[i].user_id = memories[1].user_id

\* C16: disconnect_user(u) returns success whether or not u has a connection,
\* deletes no connection row, sets is_active = false on every row of u and
\* changes nothing else in them, leaves the rows of other users and all auth
\* codes as they were; right after it get_connection_status(u) and
\* is_user_connected for each chat identity of u's rows report not connected;
\* and a user or a chat identity without an active connection gets one only by
\* a successful verify_and_connect for that user from that chat identity.
C16_DisconnectSoftDelete ==
    [][/\ ret'.op = "disconnect" =>
            LET u == ret'.user_id IN
            /\ ret'.success
            /\ codes' = codes
            /\ Len(conns') = Len(conns)
            /\ \A i \in DOMAIN conns :
                  conns'[i] = IF conns[i].user_id = u
                              THEN [conns[i] EXCEPT !.is_active = FALSE]
                              ELSE conns[i]
            /\ GetConnectionStatus(conns', u) = {[connected |-> FALSE]}
            /\ \A i \in DOMAIN conns :
                  conns[i].user_id = u => ~IsUserConnected(conns', conns[i].telegram_user_id)
       /\ \A u \in Users :
            (/\ GetConnectionStatus(conns, u) = {[connected |-> FALSE]}
             /\ GetConnectionStatus(conns', u) # {[connected |-> FALSE]}) =>
                /\ ret'.op = "verify"
                /\ ret'.success
                /\ codes[ret'.row].user_id = u
       /\ \A chat \in Chats :
            (~IsUserConnected(conns, chat) /\ IsUserConnected(conns', chat)) =>
                /\ ret'.op = "verify"
                /\ ret'.success
                /\ ret'.chat = chat
    ]_vars

\* a connected user was disconnected while another user stayed connected
C16_Witness ==
    /\ ret.op = "disconnect"
    /\ Len(conns) = 2
    /\ \E i, j \in DOMAIN conns :
          /\ conns[i].user_id = ret.user_id
          /\ ~conns[i].is_active
          /\ conns[j].user_id # ret.user_id
          /\ conns[j].is_active
    /\ \A i \in DOMAIN codes : codes[i].is_used /\ successes[i] = 1

\* C17: in every reachable state each user has at most one connection row
\* with is_active = true.
C17_OneActiveConnectionPerUser ==
    \A u \in Users : Cardinality(UserActiveRows(conns, u)) <= 1

ApiOps == {"api_generate_auth_code", "api_get_connection_status", "api_disconnect_telegram"}

\* the request was turned away before the endpoint called a service
NothingServed ==
    /\ calls' = {}
    /\ UNCHANGED <<codes, conns>>
    /\ ret'.body = ApiRejected(ret'.status)

\* C18 as stated: a request to generate-auth-code, connection-status or
\* disconnect whose secret header is present and differs from the configured
\* secret is answered 401, before any service call: no code is generated or
\* invalidated, no connection is deactivated and the body carries no
\* connection data.
C18_WrongSecretIs401 ==
    [][(/\ ret'.op \in ApiOps
        /\ ret'.header # << >>
        /\ ret'.header # <<API_SECRET_KEY>>) =>
            /\ ret'.status = 401
            /\ NothingServed
    ]_vars

\* C18 amended: such a request is never served: it is answered 401, or 500
\* when the database pool dependency, which is resolved before the secret is
\* compared, raises; a request without the header is answered 422 or 500; in
\* every one of these cases no service is called, no code is generated or
\* invalidated, no connection is deactivated and the body carries only the
\* error detail.
C18_WrongSecretNeverServed ==
    [][(ret'.op \in ApiOps /\ ret'.header # <<API_SECRET_KEY>>) =>
            /\ ret'.status \in (IF ret'.header = << >> THEN {422, 500} ELSE {401, 500})
            /\ NothingServed
    ]_vars

\* a disconnect request with a wrong secret was answered 401 and the user's
\* connection is still active
C18_Witness ==
    /\ ret.op = "api_disconnect_telegram"
    /\ ret.header = <<"k2">>
    /\ ret.status = 401
    /\ UserActiveRows(conns, ret.user_id) # {}
    /\ \E i \in DOMAIN codes : codes[i].user_id = ret.user_id /\ ~codes[i].is_used

HandlerOps ==
    {"cmd_start", "cmd_connect", "cmd_status", "cmd_add", "cmd_list", "cmd_search",
     "cmd_help", "handle_text_message", "handle_photo_message", "handle_document_message"}

\* the replies that tell the sender that the event could not be handled
ErrorReplies ==
    {"error_occurred", "status_error", "list_error", "search_error",
     "memory_failed", "photo_failed", "document_failed"}

\* C19: whenever an exception is raised while a chat event is handled, the
\* failure of the connection lookup at the start of /connect, /list, /search,
\* text, photo and document handling included, it does not leave the handler
\* and the last reply sent to the sender is an error message.
C19_ExceptionsAnswered ==
    [][(ret'.op \in HandlerOps /\ ret'.raised # "none") =>
            /\ ~ret'.escaped
            /\ replies' # << >>
            /\ replies'[Len(replies')].kind \in ErrorReplies
    ]_vars

\* C11: in every reachable state, under every statement-level interleaving
\* of concurrent create_memory_from_telegram and create_memory_with_file
\* calls, no two memories of one user have the same index_position, and every
\* memory inserted has an index_position greater than every index_position
\* its user had before the insert.
C11_IndexPositionsDistinct ==
    /\ [](\A i, j \in DOMAIN memories :
             (i # j /\ memories[i].user_id = memories[j].user_id) =>
                 memories[i].index_position # memories[j].index_position)
    /\ [][Len(memories') = Len(memories) + 1 =>
             \A i \in DOMAIN memories :
                 memories[i].user_id = memories'[Len(memories')].user_id =>
                     memories[i].index_position < memories'[Len(memories')].index_position
       ]_vars

\* every row but the last of the table after one insert is the table before it
Appended(before, after) ==
    /\ Len(after) = Len(before) + 1
    /\ \A i \in DOMAIN before : after[i] = before[i]

\* C12: a create_memory_from_telegram call whose embedding generation fails
\* (the API fails or there is nothing to embed) and whose database statements
\* run adds exactly one memory row, of type text with a null embedding,
\* and returns success with has_embedding = false and no error.
C12_TextMemoryWithoutEmbedding ==
    [][(/\ ret'.op = "create_memory_from_telegram"
        /\ ret'.db = "ok"
        /\ \/ ret'.api = "fail"
           \/ \A k \in DOMAIN EmbeddingText(ret'.title, ret'.content) :
                 EmbeddingText(ret'.title, ret'.content)[k] \in Whitespace) =>
            /\ Appended(memories, memories')
            /\ memories'[Len(memories')].embedding = "null"
            /\ memories'[Len(memories')].type = "text"
            /\ memories'[Len(memories')].user_id = ret'.user_id
            /\ memories'[Len(memories')].title = ret'.title
            /\ memories'[Len(memories')].content = ret'.content
            /\ memory_files' = memory_files
            /\ ret'.result.success
            /\ ~ret'.result.has_embedding
            /\ ret'.result.memory_id = Len(memories')
            /\ "error" \notin DOMAIN ret'.result
    ]_vars

\* a memory was stored without an embedding after one that has an embedding
C12_Witness ==
    /\ ret.op = "create_memory_from_telegram"
    /\ ret.api = "fail"
    /\ ret.result.success
    /\ Len(memories) = 2
    /\ memories[1].embedding # "null"
    /\ memories[2].embedding = "null"
    /\ memories[2].content = <<"h", "i">>

\* C13: a create_memory_with_file call whose relay fails, in the download or
\* in the upload, adds no memory_files row and returns what
\* create_memory_from_telegram returns for the same title and the content
\* followed by the failure note; when the database statements run, that is
\* success, and exactly one memory row is added, of type text, with that
\* content.
C13_RelayFailureFallsBack ==
    [][(ret'.op = "create_memory_with_file" /\ ret'.relay # "ok") =>
            /\ memory_files' = memory_files
            /\ ret'.result = Result(CreateMemoryFromTelegram(
                                 memories, memory_files, ret'.user_id, ret'.title,
                                 ret'.content \o FailureNote, ret'.api, ret'.db))
            /\ ret'.db # "insert_memory" =>
                  /\ ret'.result.success
                  /\ Appended(memories, memories')
                  /\ memories'[Len(memories')].type = "text"
                  /\ memories'[Len(memories')].user_id = ret'.user_id
                  /\ memories'[Len(memories')].title = ret'.title
                  /\ memories'[Len(memories')].content = ret'.content \o FailureNote
    ]_vars

\* an upload failed and the memory was stored as text next to a file memory
C13_Witness ==
    /\ ret.op = "create_memory_with_file"
    /\ ret.relay = "upload_failed"
    /\ ret.result.success
    /\ Len(memories) = 2
    /\ memories[1].type = "file"
    /\ Len(memory_files) = 1
    /\ memories[2].type = "text"
    /\ memories[2].content = <<"h", "i">> \o FailureNote

FilesOf(mf, memory_id) == {j \in DOMAIN mf : mf[j].memory_id = memory_id}

\* C14: in every reachable state every memory of type file has exactly one
\* memory_files row and every memory_files row belongs to a memory of type
\* file; and a create_memory_with_file call that returns success = false
\* after a successful relay has added no memory row.
C14_FileRowsOneToOne ==
    /\ [](/\ \A i \in DOMAIN memories :
               memories[i].type = "file" => Cardinality(FilesOf(memory_files, i)) = 1
          /\ \A j \in DOMAIN memory_files :
               /\ memory_files[j].memory_id \in DOMAIN memories
               /\ memories[memory_files[j].memory_id].type = "file")
    /\ [][(/\ ret'.op = "create_memory_with_file"
           /\ ret'.relay = "ok"
           /\ ~ret'.result.success) => memories' = memories]_vars

\* text contains query, letter case ignored
Contains(text, query) ==
    \E k \in 0..(Len(text) - Len(query)) :
        SubSeq(Lower(text), k + 1, k + Len(query)) = Lower(query)

\* C15: search_memories returns at most limit rows, all of the given user
\* and no row twice; when an embedding of the query was obtained, every row
\* returned has an embedding and the rows come in ascending distance from the
\* query's embedding; when none was obtained, every row returned contains the
\* query in its title or its content, letter case ignored, and the rows come
\* newest first.
C15_TwoTierSearch ==
    [][ret'.op = "search_memories" =>
        LET r == ret'.result IN
        /\ Len(r) <= ret'.limit
        /\ \A a \in DOMAIN r :
              /\ r[a] \in DOMAIN memories
              /\ memories[r[a]].user_id = ret'.user_id
        /\ \A a, b \in DOMAIN r : a < b => r[a] # r[b]
        /\ IF ret'.query_embedding # "null"
           THEN /\ \A a \in DOMAIN r : memories[r[a]].embedding # "null"
                /\ \A a, b \in DOMAIN r :
                      a < b => CosineDistance(memories[r[a]].embedding, ret'.query_embedding)
                                 <= CosineDistance(memories[r[b]].embedding, ret'.query_embedding)
           ELSE /\ \A a \in DOMAIN r :
                      \/ Contains(memories[r[a]].title, ret'.query)
                      \/ Contains(memories[r[a]].content, ret'.query)
                /\ \A a, b \in DOMAIN r : a < b => r[a] > r[b]
    ]_vars

\* C20: generate_embedding returns None and sends no request when its text is
\* empty or has only whitespace in it, whatever the API would answer.
C20_BlankTextNotEmbedded ==
    [][(/\ ret'.op = "generate_embedding"
        /\ \A k \in DOMAIN ret'.text : ret'.text[k] \in Whitespace) =>
            /\ ret'.result = "null"
            /\ ret'.network_calls = 0
            /\ calls' = {}
    ]_vars

\* a text of whitespace only was not embedded although the API would have answered
C20_Witness ==
    /\ ret.op = "generate_embedding"
    /\ ret.text = <<" ", "\t", "\n">>
    /\ ret.api = "v1"
    /\ ret.result = "null"
    /\ calls = {}

\* C21: generate_embeddings_batch never raises; when the batched request
\* fails (a status other than 200, or an exception) it hands every text to
\* generate_embedding, in input order, and returns a list as long as the
\* input whose i-th item is the vector or None obtained for the i-th text;
\* for an empty input it returns an empty list and sends no request.
C21_BatchFallsBackPerText ==
    [][ret'.op = "generate_embeddings_batch" =>
        /\ ~ret'.raised
        /\ ret'.texts = << >> =>
              /\ ret'.result = << >>
              /\ ret'.batch_calls = 0
              /\ ret'.embed_calls = << >>
              /\ ret'.network_calls = 0
              /\ calls' = {}
        /\ (ret'.texts # << >> /\ ret'.batch.kind # "ok") =>
              /\ ret'.batch_calls = 1
              /\ ret'.embed_calls = ret'.texts
              /\ Len(ret'.result) = Len(ret'.texts)
              /\ \A i \in DOMAIN ret'.texts :
                    ret'.result[i] =
                        IF \/ \A k \in DOMAIN ret'.texts[i] : ret'.texts[i][k] \in Whitespace
                           \/ ret'.apis[i] = "fail"
                        THEN "null"
                        ELSE ret'.apis[i]
    ]_vars

\* the batched request raised; the first text, being blank, then got None
\* and the second was embedded on its own
C21_Witness ==
    /\ ret.op = "generate_embeddings_batch"
    /\ ret.batch.kind = "exception"
    /\ ret.texts = << <<" ", "\t", "\n">>, <<"h", "i">> >>
    /\ ret.apis = <<"v1", "v2">>
    /\ ret.result = <<"null", "v2">>
    /\ ret.network_calls = 2
    /\ ~ret.raised

\* the calls that end in _fallback_analysis for want of a parsed object
VisionFailures == {"status", "exception", "no_message", "unparseable", "not_object"}

\* the part of a file name before its last '.', '_' and '-' turned into
\* blanks, each word capitalised, one blank between the words
FileStem(filename) ==
    LET dots == {i \in DOMAIN filename : filename[i] = "."}
    IN  IF dots = {} THEN filename
        ELSE SubSeq(filename, 1, (CHOOSE i \in dots : \A j \in dots : j <= i) - 1)
TitleOfStem(filename) ==
    LET spaced == [i \in DOMAIN FileStem(filename) |->
                      IF FileStem(filename)[i] \in {"_", "-"} THEN " "
                      ELSE FileStem(filename)[i]]
        words == Split(spaced)
    IN  Join([k \in DOMAIN words |-> Capitalize(words[k])], <<" ">>)

\* C22 as stated: when the vision call fails, yields no message or yields
\* output that does not parse to an object, the result has confidence 0.0,
\* no tags, category "Other" and, as title, the capitalised words of the
\* part of the file name before its last '.'.
C22_FallbackTitleFromFilename ==
    [][(/\ ret'.op = "analyze_image_from_url"
        /\ ret'.vision.kind \in VisionFailures) =>
            /\ ret'.result.confidence = 0
            /\ ret'.result.tags = << >>
            /\ ret'.result.category = OtherCategory
            /\ ret'.result.title = TitleOfStem(ret'.filename)
    ]_vars

\* C22, amended: the same, the title being "Uploaded Image" when the part of
\* the file name before its last '.' holds no word.
C22_FallbackAnalysis ==
    [][(/\ ret'.op = "analyze_image_from_url"
        /\ ret'.vision.kind \in VisionFailures) =>
            /\ ret'.result.confidence = 0
            /\ ret'.result.tags = << >>
            /\ ret'.result.category = OtherCategory
            /\ ret'.result.title = IF TitleOfStem(ret'.filename) = << >>
                                   THEN UploadedImage
                                   ELSE TitleOfStem(ret'.filename)
    ]_vars

\* the model's answer for my_trip-photo.jpg did not parse: "My Trip Photo"
C22_Witness ==
    /\ ret.op = "analyze_image_from_url"
    /\ ret.vision.kind = "unparseable"
    /\ ret.filename = <<"m", "y", "_", "t", "r", "i", "p", "-", "p", "h", "o", "t", "o",
                        ".", "j", "p", "g">>
    /\ ret.result.title = <<"M", "y", " ", "T", "r", "i", "p", " ", "P", "h", "o", "t", "o">>
    /\ ret.result.confidence = 0
    /\ ret.result.tags = << >>
    /\ ret.result.category = OtherCategory

\* C23: every result of analyze_image_from_url, from the parsed object or
\* from a fallback, has a title of at most 100 characters, a content of at
\* most 500, tags of at most 30 each and a category of at most 50.
C23_FieldLengthBounds ==
    [][ret'.op = "analyze_image_from_url" =>
        /\ Len(ret'.result.title) <= TitleLimit
        /\ Len(ret'.result.content) <= ContentLimit
        /\ \A k \in DOMAIN ret'.result.tags : Len(ret'.result.tags[k]) <= TagLimit
        /\ Len(ret'.result.category) <= CategoryLimit
    ]_vars

\* C24: _sanitize_text, called with a field's limit, returns the
\* whitespace-normalised text when that is no longer than the limit, and
\* otherwise a string of exactly the limit's length that ends with "...".
C24_SanitizeTruncatesToLimit ==
    [][ret'.op = "_sanitize_text" =>
        LET normalised == Normalise(ret'.text)
            limit == ret'.max_length
        IN  IF Len(normalised) > limit
            THEN /\ Len(ret'.result) = limit
                 /\ SubSeq(ret'.result, limit - 2, limit) = Ellipsis
            ELSE ret'.result = normalised
    ]_vars

\* a tag whose normalised form is three characters too long was cut to 30
C24_Witness ==
    /\ ret.op = "_sanitize_text"
    /\ ret.max_length = TagLimit
    /\ ret.text = Spaced(TagLimit + 3)
    /\ Len(Normalise(ret.text)) = TagLimit + 3
    /\ Len(ret.result) = TagLimit
    /\ SubSeq(ret.result, TagLimit - 2, TagLimit) = Ellipsis
    /\ SubSeq(ret.result, 1, TagLimit - 3) = SubSeq(ret.text, 1, TagLimit - 3)

\* C25: process_telegram_file reports the download failure exactly when the
\* download failed and the upload failure exactly when the download
\* succeeded and the upload failed; the two errors differ; a download that
\* succeeded, with zero bytes too, is never reported as a download failure.
C25_RelayFailureReasons ==
    [][ret'.op = "process_telegram_file" =>
        LET failed == ~ret'.result.success
            error == IF failed THEN ret'.result.error ELSE ""
        IN  /\ (error = DownloadFailed) <=> ~ret'.download.ok
            /\ (error = UploadFailed) <=> (ret'.download.ok /\ ret'.upload = "raise")
            /\ DownloadFailed # UploadFailed
            /\ failed => error \in {DownloadFailed, UploadFailed}
    ]_vars

\* C26: verify_and_connect looks at the most recently created row with the
\* presented code and fails with the first that applies of: InvalidCode (no
\* such row), CodeAlreadyUsed (the row is used), CodeExpired (the current
\* time is later than expires_at, not merely equal to it),
\* AlreadyConnectedElsewhere (the chat identity has an active connection of
\* another user); it succeeds when none applies.
C26_FailureOrder ==
    [][ret'.op = "verify" =>
        LET hits == {i \in DOMAIN codes : codes[i].code = ret'.code}
            row  == CHOOSE i \in hits : \A j \in hits : j <= i
        IN  IF hits = {}
            THEN ~ret'.success /\ ret'.error = InvalidCode
            ELSE /\ ret'.row = row
                 /\ IF codes[row].is_used
                    THEN ~ret'.success /\ ret'.error = CodeAlreadyUsed
                    ELSE IF now > codes[row].expires_at
                    THEN ~ret'.success /\ ret'.error = CodeExpired
                    ELSE IF \E i \in DOMAIN conns :
                                /\ conns[i].telegram_user_id = ret'.chat
                                /\ conns[i].is_active
                                /\ conns[i].user_id # codes[row].user_id
                    THEN ~ret'.success /\ ret'.error = AlreadyConnectedElsewhere
                    ELSE ret'.success
    ]_vars

\* a code that was both used and expired was refused as already used, in a
\* run where the other code had been accepted
C26_Witness ==
    /\ ret.op = "verify"
    /\ ret.error = CodeAlreadyUsed
    /\ now > codes[ret.row].expires_at
    /\ \E i \in DOMAIN codes : successes[i] = 1 /\ i # ret.row

\* C27: at most one unused auth-code row carries a given code string; hence
\* every unused, unexpired code can be verified by a chat identity that is
\* not connected to another user, which links that chat identity to the user
\* the code was generated for; and a successful verification marks used only
\* codes of that user.
C27_CodeStringsUnambiguous ==
    /\ [](\A i, j \in DOMAIN codes :
            (i # j /\ ~codes[i].is_used /\ ~codes[j].is_used) => codes[i].code # codes[j].code)
    /\ [](\A i \in DOMAIN codes, chat \in Chats :
            (/\ ~codes[i].is_used
             /\ now <= codes[i].expires_at
             /\ \A k \in DOMAIN conns :
                   (conns[k].telegram_user_id = chat /\ conns[k].is_active)
                       => conns[k].user_id = codes[i].user_id) =>
                LET out == VerifyAndConnect(codes, conns, codes[i].code, chat,
                                            SenderProfile(chat), now)
                IN  /\ out.success
                    /\ \E k \in DOMAIN out.conns :
                          /\ out.conns[k].telegram_user_id = chat
                          /\ out.conns[k].is_active
                          /\ out.conns[k].user_id = codes[i].user_id)
    /\ [][(ret'.op = "verify" /\ ret'.success) =>
            \A i \in DOMAIN codes :
                (codes'[i].is_used /\ ~codes[i].is_used)
                    => codes[i].user_id = codes[ret'.row].user_id]_vars

\* a chat identity with no active connection of a user other than u
Eligible(cn, chat, u) ==
    \A k \in DOMAIN cn :
        (cn[k].telegram_user_id = chat /\ cn[k].is_active) => cn[k].user_id = u

\* C28: a verify_and_connect that returns a failure leaves every auth-code
\* row and every connection row as it was; so a code that was unused and
\* unexpired when the call failed is still accepted from any chat identity
\* that is not connected to another user.
C28_FailureChangesNothing ==
    [][(ret'.op = "verify" /\ ~ret'.success) =>
        /\ ret'.error \in {InvalidCode, CodeAlreadyUsed, CodeExpired, AlreadyConnectedElsewhere}
        /\ codes' = codes
        /\ conns' = conns
        /\ (/\ ret'.row # 0
            /\ ~codes[ret'.row].is_used
            /\ now <= codes[ret'.row].expires_at) =>
                \A chat \in Chats :
                    Eligible(conns', chat, codes'[ret'.row].user_id) =>
                        VerifyAndConnect(codes', conns', ret'.code, chat,
                                         SenderProfile(chat), now').success
    ]_vars

\* a code refused to a chat identity connected elsewhere is still unused,
\* unexpired and acceptable from the other chat identity
C28_Witness ==
    /\ ret.op = "verify"
    /\ ~ret.success
    /\ ret.error = AlreadyConnectedElsewhere
    /\ ~codes[ret.row].is_used
    /\ now <= codes[ret.row].expires_at
    /\ \E chat \in Chats :
          /\ chat # ret.chat
          /\ Eligible(conns, chat, codes[ret.row].user_id)
          /\ VerifyAndConnect(codes, conns, ret.code, chat, SenderProfile(chat), now).success

\* C29: a /connect from a chat identity that has an active connection never
\* calls verify_and_connect, whatever code it carries: no auth-code row and
\* no connection row changes; and unless the database lookup itself raised,
\* the one reply says that the sender is already connected.
C29_ConnectWhenConnected ==
    [][(/\ ret'.op = "cmd_connect"
        /\ HasActiveRow(conns, ret'.chat)) =>
            /\ "verify_and_connect" \notin calls'
            /\ codes' = codes
            /\ conns' = conns
            /\ successes' = successes
            /\ ret'.raised = "none" =>
                  /\ Len(replies') = 1
                  /\ replies'[1].kind = "already_connected"
    ]_vars

\* a connected sender typed /connect with a code that another user holds
\* unused: the reply was "already connected" and the code is still unused
C29_Witness ==
    /\ ret.op = "cmd_connect"
    /\ ret.raised = "none"
    /\ ret.args # << >>
    /\ Len(replies) = 1
    /\ replies[1].kind = "already_connected"
    /\ calls = {"is_user_connected"}
    /\ \E i \in DOMAIN codes, k \in DOMAIN conns :
          /\ codes[i].code = Upper(Strip(ret.args[1]))
          /\ ~codes[i].is_used
          /\ conns[k].telegram_user_id = ret.chat
          /\ conns[k].is_active
          /\ conns[k].user_id # codes[i].user_id

\* C30: while no pool is closed, get_db_pool creates at most one pool and
\* every caller receives that pool, also when two callers find _pool unset
\* before either has created one.
C30_SinglePool ==
    /\ [](created <= 1)
    /\ [][ret'.op = "get_db_pool" => ret'.result = 1]_vars
====
